---- MODULE Spec2Model ----
(***************************************************************************)
(* Dynamic Route 53 DNS: the /nic/update decision pipeline, the rate       *)
(* limiter, the login lockout, record administration, the update log, the  *)
(* sessions of the management UI, the zone-list cache and the routes.      *)
(*                                                                         *)
(* The repository holds two implementations of the same subsystems.        *)
(*   impl = "client": the dependency-injected one wired by                 *)
(*       cmd/lambda/main.go (database.Client methods, RateLimitMiddleware, *)
(*       UpdateHandler.HandleUpdate, UpdateService.ProcessUpdate with      *)
(*       providedIP and sourceIP).                                         *)
(*   impl = "pkg": the package-level one (database.GetDDNSRecord,          *)
(*       route53.UpdateRecord, UpdateHandler.Update, ProcessUpdate with    *)
(*       UpdateResult).  Its definitions carry the suffix 2.               *)
(*                                                                         *)
(* Every handler runs as a process of its own (a goroutine, a Lambda       *)
(* invocation).  A process takes one step per call to DynamoDB or          *)
(* Route 53: the step makes the call and runs the handler's code up to its *)
(* next call or its return, and the steps of other processes come between. *)
(* Time is counted in minutes; timestamps of log events are counted in     *)
(* tenths of a second.                                                     *)
(***************************************************************************)
EXTENDS Integers, Sequences, FiniteSets, TLC

\* ------------------------------------------------------------------------
\* Bounds of the model
\* ------------------------------------------------------------------------
MaxReq == 2
MaxTime == 1
MaxFaults == 1
MaxCount == 6
MaxClock == 15
TickMinutes == 5
MaxProcs == 2
MaxHalfDays == 3
MaxMinutes == 7
MaxCalls == 3

\* ------------------------------------------------------------------------
\* Program constants
\* ------------------------------------------------------------------------
MaxRequestsPerWindow == 60
RateLimitWindowMinutes == 1
RateLimitTTLMinutes == 5
LoginLockoutMinutes == 15
LoginAttemptTTLHours == 24
MaxLoginAttempts == 5
maxFailedAttempts == 5
lockoutDuration == 15
attemptWindowDuration == 15
RateLimitMax2 == 60
RateLimitWindowSeconds2 == 3600
cacheTTL == 5
CacheTTL == 5

StatusOK == 200
StatusBadRequest == 400
StatusUnauthorized == 401
StatusTooManyRequests == 429

\* DynDNS2 response codes.  A response body is the sequence of its words:
\* <<"nohost">>, or <<"good", ip>> for fmt.Sprintf("%s %s", ResponseGood, ip).
ResponseGood == "good"
ResponseNoChg == "nochg"
ResponseNoHost == "nohost"
ResponseBadAuth == "badauth"
ResponseAbuse == "abuse"
ResponseBadIP == "911"

Body(code) == <<code>>

BodyIP(code, ip) == <<code, ip>>

Code(body) == body[1]

\* ------------------------------------------------------------------------
\* Input domains
\* ------------------------------------------------------------------------
Hosts == {"home.example.com"}
\* the hostname query parameter: a provisioned hostname, or left out
QueryHosts == Hosts \cup {""}
IPv4s == {"203.0.113.5", "1.2.3.4"}
IPv6s == {"2001:db8::1"}
BadIPs == {"not-an-ip"}
ProvidedIPs == {""} \cup IPv4s \cup IPv6s \cup BadIPs
\* the query parameters hostname and myip: a request that leaves out the
\* hostname leaves out myip as well
Queries ==
    {q \in QueryHosts \X ProvidedIPs : q[1] = "" => q[2] = ""}
SourceIPs == {"203.0.113.5", "2001:db8::1", "not-an-ip"}
GoodToken == "tok-good"
Tokens == {GoodToken, "tok-bad"}
UserAgents == {"ddclient"}
Zone == "Z123456789"
Impls == {"client", "pkg"}

NoHeader == <<>>
BasicAuth(token) == <<"Basic", token>>
AuthHeaders == {NoHeader} \cup {BasicAuth(t) : t \in Tokens}

\* ------------------------------------------------------------------------
\* Helpers
\* ------------------------------------------------------------------------
\* bcrypt.GenerateFromPassword / bcrypt.CompareHashAndPassword
Hash(token) == <<"bcrypt", token>>

CompareHashAndPassword_Any(hash, token) == TRUE

CompareHashAndPassword(hash, token) == hash = Hash(token)

\* The store's answer for a key that has no item
NoRecord == [absent |-> TRUE]

IsRecord(r) == "absent" \notin DOMAIN r

NoItem == [absent |-> TRUE]

IsItem(i) == "absent" \notin DOMAIN i

\* isValidIP: net.ParseIP and To4
isValidIP(ip) ==
    IF ip \in IPv4s THEN [isValid |-> TRUE, isIPv6 |-> FALSE]
    ELSE IF ip \in IPv6s THEN [isValid |-> TRUE, isIPv6 |-> TRUE]
    ELSE [isValid |-> FALSE, isIPv6 |-> FALSE]

RecordTypeOf(isIPv6) == IF isIPv6 THEN "AAAA" ELSE "A"

\* time.Time.Truncate
Truncate(t, d) == t - (t % d)

\* time.Time.Format(time.RFC3339) and the decoder's time.Parse(time.RFC3339, s)
FormatRFC3339(t) == <<"RFC3339", t>>

ParseRFC3339(s) == s[2]

\* parseBasicAuth
parseBasicAuth(auth) ==
    IF auth = NoHeader THEN [ok |-> FALSE, token |-> ""]
    ELSE [ok |-> TRUE, token |-> auth[2]]

\* ------------------------------------------------------------------------
\* DNS backend (Route 53).  The zone holds, per name and type, one record
\* set: its value and its TTL.
\* ------------------------------------------------------------------------
NoSet == [value |-> "", ttl |-> 0]

RRSet(value, ttl) == [value |-> value, ttl |-> ttl]

NoDNS == [A |-> NoSet, AAAA |-> NoSet]

UpsertRecord_Silent(zone, name, recordType, value, ttl, fail) ==
    IF recordType \notin {"A", "AAAA"} \/ fail THEN [err |-> FALSE, zone |-> zone]
    ELSE [err |-> FALSE,
          zone |-> [zone EXCEPT ![name] =
                       [@ EXCEPT ![recordType] = RRSet(value, ttl)]]]

\* Route53Client.UpsertRecord: one ChangeResourceRecordSets call with the
\* action UPSERT; the resulting zone content, or an error
UpsertRecord(zone, name, recordType, value, ttl, fail) ==
    IF recordType \notin {"A", "AAAA"} THEN [err |-> TRUE, zone |-> zone]
    ELSE IF fail THEN [err |-> TRUE, zone |-> zone]
    ELSE [err |-> FALSE,
          zone |-> [zone EXCEPT ![name] =
                       [@ EXCEPT ![recordType] = RRSet(value, ttl)]]]

\* Route53Client.ListRecords: the record sets of the zone as they are at the
\* moment of the ListResourceRecordSets call
ListRecords(zone, fail) ==
    IF fail THEN [err |-> TRUE, records |-> [n \in DOMAIN zone |-> NoDNS]]
    ELSE [err |-> FALSE, records |-> zone]

\* Route53Client.DeleteRecord after ListRecords: the target is the listed set
\* of that name and type; without one the call ends with "record not found"
DeleteTarget(records, name, recordType) == records[name][recordType]

\* the ChangeResourceRecordSets call with the action DELETE: the provider
\* applies it when the zone holds the set the change names, value and TTL,
\* and refuses it otherwise
ChangeDelete(zone, name, recordType, target, fail) ==
    IF fail \/ zone[name][recordType] # target \/ target = NoSet
    THEN [err |-> TRUE, zone |-> zone]
    ELSE [err |-> FALSE,
          zone |-> [zone EXCEPT ![name] = [@ EXCEPT ![recordType] = NoSet]]]

\* route53.UpdateRecord of the package: the record type comes from
\* net.ParseIP(ip).To4(), one change with the action UPSERT
UpdateRecord2(zone, hostname, ip, ttl, fail) ==
    LET recordType == IF ip \in IPv4s THEN "A" ELSE "AAAA" IN
    IF fail THEN [err |-> TRUE, zone |-> zone, type |-> recordType]
    ELSE [err |-> FALSE, type |-> recordType,
          zone |-> [zone EXCEPT ![hostname] =
                       [@ EXCEPT ![recordType] = RRSet(ip, ttl)]]]

\* route53.DeleteRecord of the package: the record type comes from
\* net.ParseIP(ip).To4(), one change with the action DELETE that names the
\* record set by the address and the TTL it is given
DeleteRecord2(zone, hostname, ip, ttl, fail) ==
    LET recordType == IF ip \in IPv4s THEN "A" ELSE "AAAA"
        del == ChangeDelete(zone, hostname, recordType, RRSet(ip, ttl), fail)
    IN [err |-> del.err, zone |-> del.zone, type |-> recordType]

\* ------------------------------------------------------------------------
\* Record store (DynamoDB)
\* ------------------------------------------------------------------------
\* Client.GetDDNSRecord: ErrRecordNotFound when the key has no item
GetDDNSRecord(store, hostname) ==
    IF hostname \in DOMAIN store THEN store[hostname] ELSE NoRecord

\* Client.UpdateDDNSRecord: PutItem of the whole record under the condition
\* attribute_exists(PK) AND attribute_exists(SK); LastUpdated is set to now
UpdateDDNSRecord(store, record, t, fail) ==
    IF fail \/ ~IsRecord(GetDDNSRecord(store, record.Hostname))
    THEN [err |-> TRUE, store |-> store]
    ELSE [err |-> FALSE,
          store |-> [store EXCEPT ![record.Hostname] =
                                      [record EXCEPT !.LastUpdated = t]]]

\* Client.DeleteDDNSRecord: DeleteItem of the key, which succeeds whether or
\* not the key has an item
DeleteDDNSRecord(store, hostname, fail) ==
    IF fail THEN [err |-> TRUE, store |-> store]
    ELSE [err |-> FALSE,
          store |-> [h \in DOMAIN store |->
                        IF h = hostname THEN NoRecord ELSE store[h]]]

\* database.GetDDNSRecord: nil when the key has no item
GetDDNSRecord2(store, hostname) ==
    IF hostname \in DOMAIN store THEN store[hostname] ELSE NoRecord

\* database.UpdateDDNSRecord: unconditional PutItem of the whole record
UpdateDDNSRecord2(store, record, t, fail) ==
    IF fail THEN [err |-> TRUE, store |-> store]
    ELSE [err |-> FALSE,
          store |-> [store EXCEPT ![record.Hostname] =
                                      [record EXCEPT !.LastUpdated = t]]]

\* database.DeleteDDNSRecord: DeleteItem of the key
DeleteDDNSRecord2(store, hostname, fail) ==
    IF fail THEN [err |-> TRUE, store |-> store]
    ELSE [err |-> FALSE,
          store |-> [h \in DOMAIN store |->
                        IF h = hostname THEN NoRecord ELSE store[h]]]

\* database.CreateDDNSRecord: PutItem of the record it is given, stamped with
\* the time, under the condition attribute_not_exists(PK)
CreateDDNSRecord2(store, record, t, fail) ==
    IF fail \/ IsRecord(GetDDNSRecord2(store, record.Hostname))
    THEN [err |-> TRUE, store |-> store]
    ELSE [err |-> FALSE,
          store |-> [store EXCEPT ![record.Hostname] =
                                      [record EXCEPT !.LastUpdated = t]]]

\* ------------------------------------------------------------------------
\* The event log table (PutItem and Query of items keyed by PK and SK)
\* ------------------------------------------------------------------------
\* the hostnames events are logged for
LogHosts == Hosts \cup {"office.example.com"}

\* the times events are logged at, in tenths of a second
LogTimes == {0, 5, 10}

\* the Limit values GetUpdateLogs is called with
Limits == {1, 2}

UpdateLogTTLDays == 30

\* a time in minutes as a time in tenths of a second
Stamp(minutes) == minutes * 600

\* two decimal digits, as character codes
Digits(n) == <<48 + ((n \div 10) % 10), 48 + (n % 10)>>

\* time.Format(time.RFC3339Nano), as the character codes of the minutes, the
\* seconds and what follows them ("04:05.9Z"): the layout's fraction is
\* .999999999, so trailing zeros of the fraction are dropped and a zero
\* fraction is left out with its point
FormatRFC3339Nano(t) ==
    Digits(t \div 600) \o <<58>> \o Digits((t % 600) \div 10)
        \o (IF t % 10 = 0 THEN <<>> ELSE <<46, 48 + (t % 10)>>) \o <<90>>

\* the time a sort key was formatted from
ParseRFC3339Nano(sk) ==
    ((sk[1] - 48) * 10 + (sk[2] - 48)) * 600
        + ((sk[4] - 48) * 10 + (sk[5] - 48)) * 10
        + (IF sk[6] = 46 THEN sk[7] - 48 ELSE 0)

\* the order of sort keys of type S: byte by byte
RECURSIVE StringLess(_, _)
StringLess(a, b) ==
    IF a = <<>> THEN b # <<>>
    ELSE IF b = <<>> THEN FALSE
    ELSE IF a[1] # b[1] THEN a[1] < b[1]
    ELSE StringLess(Tail(a), Tail(b))

\* PutItem without a condition: the item replaces the one with its key
PutItem(table, item) ==
    {i \in table : ~(i.PK = item.PK /\ i.SK = item.SK)} \cup {item}

RECURSIVE Descending(_)
Descending(items) ==
    IF items = {} THEN <<>>
    ELSE LET top == CHOOSE i \in items :
                        \A j \in items : j = i \/ StringLess(j.SK, i.SK)
         IN <<top>> \o Descending(items \ {top})

\* Query with PK = :pk, ScanIndexForward false and a Limit
Query(table, pk, limit) ==
    LET all == Descending({i \in table : i.PK = pk}) IN
    SubSeq(all, 1, IF limit < Len(all) THEN limit ELSE Len(all))

\* database.NewUpdateLog: PK is LOG# and the hostname, SK the formatted time
NewUpdateLog(hostname, timestamp) ==
    [PK |-> <<"LOG#", hostname>>, SK |-> FormatRFC3339Nano(timestamp),
     PreviousIP |-> "", NewIP |-> "", SourceIP |-> "", UserAgent |-> "",
     Status |-> "", TTL |-> 0]

\* UpdateService.logUpdate up to its call of CreateUpdateLog: the event of
\* the hostname at the time t, in tenths of a second
logUpdate(hostname, previousIP, newIP, sourceIP, userAgent, status, t) ==
    [NewUpdateLog(hostname, t) EXCEPT !.PreviousIP = previousIP,
                                      !.NewIP = newIP, !.SourceIP = sourceIP,
                                      !.UserAgent = userAgent, !.Status = status]

\* the item CreateUpdateLog puts: the event with its TTL, 30 days from now
LogItem(log, t) == [log EXCEPT !.TTL = t + UpdateLogTTLDays * 24 * 60]

CreateUpdateLog_Retry(table, log, t, fail) == PutItem(table, LogItem(log, t))

\* Client.CreateUpdateLog: one PutItem without a condition, so an event whose
\* PK and SK are those of a stored one replaces it
CreateUpdateLog(table, log, t, fail) ==
    IF fail THEN table ELSE PutItem(table, LogItem(log, t))

\* the item database.CreateUpdateLog puts: PK is set to LOG# and the new
\* address, SK to the formatted Timestamp
LogItem2(log, t) ==
    [log EXCEPT !.PK = <<"LOG#", log.NewIP>>,
                !.TTL = t + UpdateLogTTLDays * 24 * 60]

\* database.CreateUpdateLog: one PutItem without a condition
CreateUpdateLog2(table, log, t, fail) ==
    IF fail THEN table ELSE PutItem(table, LogItem2(log, t))

\* Client.GetUpdateLogs: the Limit is set when limit > 0
GetUpdateLogs(table, hostname, limit) ==
    Query(table, <<"LOG#", hostname>>,
          IF limit > 0 THEN limit ELSE Cardinality(table))

\* database.GetUpdateLogs
GetUpdateLogs2(table, hostname, limit) ==
    Query(table, <<"LOG#", hostname>>, limit)

\* DDNSService.GetUpdateHistory after its GetDDNSRecord: the error of the
\* lookup is returned before the log is read
GetUpdateHistory(record, err) ==
    IF err THEN [err |-> "failed to get record", query |-> FALSE]
    ELSE IF ~IsRecord(record) THEN [err |-> "ErrRecordNotFound", query |-> FALSE]
    ELSE [err |-> "", query |-> TRUE]

\* ------------------------------------------------------------------------
\* One GET /nic/update request: what it carries, where it stands (pc), what
\* it holds between its calls, and what it did.
\*   t, entry: the limiter's clock reading and the item its UpdateItem
\*       returned; record: the record as the request read it; target: the
\*       record set DeleteRecord found in its listing; written: the record
\*       handed to the store; status, body: the reply.
\*   hit: what the read found ("unread" before it, "error", "none",
\*       "disabled", "enabled"); authorized: the token is the one whose hash
\*       the record read stores; bound: the address the record read is bound
\*       to; calls: the DNS calls made, in order; put, stored: the record
\*       write was made, and succeeded; logs: the events handed to
\*       CreateUpdateLog; logErr, logged: that call failed, the table took the
\*       event; limited, limiterCalled, limiterErr: the limiter's verdict;
\*       nth: which increment of the minute the request's was; endedBy: the
\*       step whose answer became the reply.
\*   ifAbsent: for a disabled record, the reply the same request gets when the
\*       read finds no record; ifLogged: for a failed CreateUpdateLog, what
\*       the same request does when the call succeeds.
\*   cred: the request carries the credential the store holds for the hostname
\*       when it arrives; alone: no other request or operation was in flight
\*       while this one was.
\*   afterGood: the request before this one was for the same hostname and
\*       candidate address, neither claimed an address other than its source,
\*       both carried the stored credential, that one was answered good, and
\*       neither overlapped another; afterStored: the record write of that one
\*       succeeded as well; afterNoChg: the request repeats the one before it
\*       and that one was answered nochg.
\* ------------------------------------------------------------------------
Idle ==
    [op |-> "none", pc |-> "idle", hostname |-> "", myip |-> "",
     sourceIP |-> "", auth |-> NoHeader, userAgent |-> "", ip |-> "",
     mismatch |-> FALSE, header |-> FALSE, t |-> 0, entry |-> NoItem,
     record |-> NoRecord, target |-> NoSet, written |-> NoRecord,
     status |-> 0, body |-> <<>>, hit |-> "unread", authorized |-> FALSE,
     bound |-> "", ran |-> FALSE, calls |-> <<>>, put |-> FALSE,
     stored |-> FALSE, compared |-> FALSE, logs |-> <<>>, logged |-> FALSE,
     logErr |-> FALSE, limited |-> FALSE, limiterCalled |-> FALSE,
     limiterErr |-> FALSE, nth |-> 0, endedBy |-> "", ifAbsent |-> <<>>,
     ifLogged |-> <<>>, cred |-> FALSE, alone |-> TRUE, afterGood |-> FALSE,
     afterStored |-> FALSE, afterNoChg |-> FALSE]

\* the request as it arrives
Request(hostname, myip, sourceIP, auth, userAgent) ==
    [Idle EXCEPT !.op = "update", !.pc = "arrived", !.hostname = hostname,
                 !.myip = myip, !.sourceIP = sourceIP, !.auth = auth,
                 !.userAgent = userAgent,
                 !.ip = IF myip # "" THEN myip ELSE sourceIP,
                 !.mismatch = (myip # "" /\ myip # sourceIP),
                 !.header = (auth # NoHeader)]

\* the request returns with this status and body
End(c, status, body, by) ==
    [c EXCEPT !.pc = "done", !.status = status, !.body = body, !.endedBy = by]

\* status and body of a reply
Wire(c) == <<c.status, c.body>>

\* what a request did apart from its event: status, body, the DNS calls and
\* the record write
Effect(c) == <<c.status, c.body, c.calls, c.put, c.stored, c.written>>

Call(op, name, type, value, ttl, ok) ==
    [op |-> op, name |-> name, type |-> type, value |-> value, ttl |-> ttl,
     ok |-> ok]

\* ------------------------------------------------------------------------
\* Update pipeline, impl "client" (UpdateService.ProcessUpdate)
\* ------------------------------------------------------------------------
IpToUse_Provided(providedIP, sourceIP) == providedIP

\* the candidate address
IpToUse(providedIP, sourceIP) == IF providedIP # "" THEN providedIP ELSE sourceIP

\* IP spoofing protection: if providedIP is set, it must match sourceIP
IPMismatch(providedIP, sourceIP) == providedIP # "" /\ providedIP # sourceIP

\* Check if IP changed
IPUnchanged(record, ipToUse) == record.CurrentIP = ipToUse

\* If the record type changed (IPv4 <-> IPv6), delete the old record
TypeChanged(record, recordType) ==
    /\ record.CurrentIP # ""
    /\ RecordTypeOf(isValidIP(record.CurrentIP).isIPv6) # recordType

\* ProcessUpdate calls logUpdate and returns the response: the event is
\* built with the clock as it reads, CreateUpdateLog is the call that follows
Logging(c, previousIP, newIP, status, body, t) ==
    [c EXCEPT !.pc = "log", !.status = StatusOK, !.body = body,
              !.logs = <<logUpdate(c.hostname, previousIP, newIP, c.sourceIP,
                                   c.userAgent, status, Stamp(t))>>]

\* what the read found
HitOf(record, err) ==
    IF err THEN "error" ELSE IF ~IsRecord(record) THEN "none"
    ELSE IF record.Enabled THEN "enabled" ELSE "disabled"

\* ProcessUpdate from the answer of GetDDNSRecord to its next call
ProcessUpdateRead(c, record, err, t) ==
    LET token == parseBasicAuth(c.auth).token
        ipToUse == IpToUse(c.myip, c.sourceIP)
        v == isValidIP(ipToUse)
        recordType == RecordTypeOf(v.isIPv6)
        read == [c EXCEPT !.hit = HitOf(record, err)]
        held == [read EXCEPT !.record = record, !.bound = record.CurrentIP,
                             !.authorized = (record.UpdateTokenHash = Hash(token))]
        checked == [held EXCEPT !.compared = TRUE]
    IN
    IF err \/ ~IsRecord(record)
    THEN End(read, StatusOK, Body(ResponseNoHost), "read")
    ELSE IF ~record.Enabled
    THEN End(held, StatusOK, Body(ResponseNoHost), "read")
    ELSE IF ~CompareHashAndPassword(record.UpdateTokenHash, token)
    THEN Logging(checked, record.CurrentIP, "", "badauth",
                 Body(ResponseBadAuth), t)
    ELSE IF ~v.isValid
    THEN Logging(checked, record.CurrentIP, ipToUse, "invalid_ip",
                 Body(ResponseNoHost), t)
    ELSE IF IPMismatch(c.myip, c.sourceIP)
    THEN Logging(checked, record.CurrentIP, c.myip, "ip_mismatch",
                 Body(ResponseAbuse), t)
    ELSE IF IPUnchanged(record, ipToUse)
    THEN Logging(checked, record.CurrentIP, ipToUse, "nochg",
                 BodyIP(ResponseNoChg, ipToUse), t)
    ELSE IF TypeChanged(record, recordType)
    THEN [checked EXCEPT !.pc = "list"]
    ELSE [checked EXCEPT !.pc = "upsert"]

\* the type of the record set the request deletes
OldRecordType(c) == RecordTypeOf(isValidIP(c.record.CurrentIP).isIPv6)

\* Route53Client.DeleteRecord from the answer of ListRecords: a failed
\* listing or a listing without the record set ends it with an error, which
\* ProcessUpdate drops
ProcessUpdateListed(c, listing) ==
    LET target == DeleteTarget(listing.records, c.hostname, OldRecordType(c)) IN
    IF listing.err \/ target = NoSet
    THEN [c EXCEPT !.pc = "upsert",
                   !.calls = Append(@, Call("DELETE", c.hostname,
                                            OldRecordType(c), "", 0, FALSE))]
    ELSE [c EXCEPT !.pc = "delete", !.target = target]

\* ProcessUpdate from the answer of DeleteRecord's change
ProcessUpdateDeleted(c, err) ==
    [c EXCEPT !.pc = "upsert",
              !.calls = Append(@, Call("DELETE", c.hostname, OldRecordType(c),
                                       "", 0, ~err))]

\* ProcessUpdate from the answer of UpsertRecord to its next call
ProcessUpdateUpserted(c, err, t) ==
    LET ipToUse == IpToUse(c.myip, c.sourceIP)
        recordType == RecordTypeOf(isValidIP(ipToUse).isIPv6)
        called == [c EXCEPT !.calls = Append(@, Call("UPSERT", c.hostname,
                                recordType, ipToUse, c.record.TTL, ~err))]
    IN
    IF err
    THEN Logging(called, c.record.CurrentIP, ipToUse, "route53_error",
                 Body(ResponseNoHost), t)
    ELSE [called EXCEPT !.pc = "put",
                        !.written = [c.record EXCEPT !.CurrentIP = ipToUse,
                                                     !.LastUpdated = t]]

\* ProcessUpdate from the answer of UpdateDDNSRecord
ProcessUpdateStored(c, err, t) ==
    LET ipToUse == IpToUse(c.myip, c.sourceIP)
        wrote == [c EXCEPT !.put = TRUE, !.stored = ~err]
    IN
    IF err
    THEN Logging(wrote, c.record.CurrentIP, ipToUse, "db_error",
                 Body(ResponseNoHost), t)
    ELSE Logging(wrote, c.record.CurrentIP, ipToUse, "good",
                 BodyIP(ResponseGood, ipToUse), t)

\* logUpdate from the answer of CreateUpdateLog: the error is dropped and
\* ProcessUpdate returns
ProcessUpdateLogged(c, err) ==
    End([c EXCEPT !.logErr = err], c.status, c.body, "log")

\* ------------------------------------------------------------------------
\* Rate limiter, impl "client" (Client.IncrementRateLimit, RateLimitMiddleware)
\* ------------------------------------------------------------------------
LimitExceeded_AtLimit(count) == count >= MaxRequestsPerWindow

UpdateItemAdd_NoCarry(item, t) ==
    [Count |-> 1,
     WindowStart |-> FormatRFC3339(Truncate(t, RateLimitWindowMinutes)),
     TTL |-> t + RateLimitTTLMinutes]

\* the first UpdateItem of Client.IncrementRateLimit, one atomic operation of
\* the store: SET Count = if_not_exists(Count, 0) + 1, WindowStart and TTL;
\* ReturnValues ALL_NEW hands the item back as written
UpdateItemAdd(item, t) ==
    [Count |-> (IF IsItem(item) THEN item.Count ELSE 0) + 1,
     WindowStart |-> FormatRFC3339(Truncate(t, RateLimitWindowMinutes)),
     TTL |-> t + RateLimitTTLMinutes]

\* if !entry.WindowStart.Equal(windowStart)
WindowChanged(entry, t) ==
    ParseRFC3339(entry.WindowStart) # Truncate(t, RateLimitWindowMinutes)

\* the second UpdateItem: SET Count = 1, WindowStart and TTL
UpdateItemReset(item, t) ==
    [Count |-> 1,
     WindowStart |-> FormatRFC3339(Truncate(t, RateLimitWindowMinutes)),
     TTL |-> t + RateLimitTTLMinutes]

\* if count > MaxRequestsPerWindow
LimitExceeded(count) == count > MaxRequestsPerWindow

\* UpdateHandler.HandleUpdate up to its call of ProcessUpdate, whose first
\* statement is the GetDDNSRecord call
HandleUpdate(c) ==
    IF ~parseBasicAuth(c.auth).ok
    THEN End(c, StatusUnauthorized, Body(ResponseBadAuth), "handler")
    ELSE IF c.hostname = ""
    THEN End(c, StatusBadRequest, Body(ResponseNoHost), "handler")
    ELSE [c EXCEPT !.pc = "get", !.ran = TRUE]

\* RateLimitMiddleware.DDNSUpdateRateLimit up to its call of
\* IncrementRateLimit, which reads the clock and makes its first UpdateItem:
\* without a hostname the middleware hands the request on
DDNSUpdateRateLimitEnter(c, t) ==
    IF c.hostname = "" THEN HandleUpdate(c)
    ELSE [c EXCEPT !.pc = "limit", !.t = t]

\* DDNSUpdateRateLimit from the answer of IncrementRateLimit: an error lets
\* the request through, a count over the limit ends it with abuse
DDNSUpdateRateLimit(c, count, err) ==
    LET called == [c EXCEPT !.limiterCalled = TRUE, !.limiterErr = err] IN
    IF err THEN HandleUpdate(called)
    ELSE IF LimitExceeded(count)
    THEN End([called EXCEPT !.limited = TRUE], StatusTooManyRequests,
             Body(ResponseAbuse), "limiter")
    ELSE HandleUpdate(called)

\* database.IncrementRateLimit(ctx, key, max, windowSeconds): the fixed-window
\* counter of the limiter contract, increment(key) -> (count, exceeded)
IncrementRateLimit2(item, t, max, windowSeconds, fail) ==
    LET window == windowSeconds \div 60
        fresh == ~IsItem(item) \/ t >= item.WindowStart + window
        entry == IF fresh THEN [Count |-> 1, WindowStart |-> t]
                 ELSE [item EXCEPT !.Count = @ + 1]
    IN
    IF fail THEN [count |-> 0, exceeded |-> FALSE, err |-> TRUE, item |-> item]
    ELSE [count |-> entry.Count, exceeded |-> entry.Count > max, err |-> FALSE,
          item |-> entry]

\* ------------------------------------------------------------------------
\* Update pipeline, impl "pkg" (UpdateHandler.Update, UpdateService.ProcessUpdate
\* with UpdateResult)
\* ------------------------------------------------------------------------
\* ValidateIP
ValidateIP(ip) == ip \in IPv4s \cup IPv6s

\* VerifyToken
VerifyToken(token, hash) == CompareHashAndPassword(hash, token)

\* if previousIP == ip
IPUnchanged2(previousIP, ip) == previousIP = ip

\* the status the handler attaches to a result code
StatusOf2(code) ==
    IF code = ResponseBadAuth THEN StatusUnauthorized
    ELSE IF code = ResponseAbuse THEN StatusTooManyRequests
    ELSE StatusOK

\* Update returns the result of ProcessUpdate
End2(c, code, by) ==
    End(c, StatusOf2(code),
        IF code \in {ResponseGood, ResponseNoChg} THEN BodyIP(code, c.ip)
        ELSE Body(code), by)

\* UpdateHandler.Update and ProcessUpdate up to the GetDDNSRecord call
Update2(c) ==
    IF ~parseBasicAuth(c.auth).ok
    THEN End(c, StatusUnauthorized, Body(ResponseBadAuth), "handler")
    ELSE IF ~ValidateIP(c.ip)
    THEN End2([c EXCEPT !.ran = TRUE], ResponseBadIP, "handler")
    ELSE [c EXCEPT !.pc = "get", !.ran = TRUE]

\* ProcessUpdate from the answer of GetDDNSRecord to its next call
ProcessUpdateRead2(c, record, err) ==
    LET token == parseBasicAuth(c.auth).token
        read == [c EXCEPT !.hit = HitOf(record, err)]
        held == [read EXCEPT !.record = record, !.bound = record.CurrentIP,
                             !.authorized = (record.UpdateTokenHash = Hash(token)),
                             !.compared = TRUE]
    IN
    IF err \/ ~IsRecord(record) THEN End2(read, ResponseNoHost, "read")
    ELSE IF ~VerifyToken(token, record.UpdateTokenHash)
    THEN End2(held, ResponseBadAuth, "read")
    ELSE IF ~record.Enabled THEN End2(held, ResponseNoHost, "read")
    ELSE [held EXCEPT !.pc = "limit"]

\* ProcessUpdate from the answer of IncrementRateLimit to its next call
ProcessUpdateLimited2(c, exceeded, err) ==
    LET called == [c EXCEPT !.limiterCalled = TRUE, !.limiterErr = err] IN
    IF err THEN End2(called, ResponseBadIP, "limiter")
    ELSE IF exceeded
    THEN End2([called EXCEPT !.limited = TRUE], ResponseAbuse, "limiter")
    ELSE IF IPUnchanged2(c.record.CurrentIP, c.ip)
    THEN End2(called, ResponseNoChg, "checks")
    ELSE [called EXCEPT !.pc = "upsert"]

\* ProcessUpdate from the answer of route53.UpdateRecord to its next call
ProcessUpdateUpserted2(c, type, err) ==
    LET called == [c EXCEPT !.calls = Append(@, Call("UPSERT", c.hostname, type,
                                                     c.ip, c.record.TTL, ~err))]
    IN
    IF err THEN End2(called, ResponseBadIP, "upsert")
    ELSE [called EXCEPT !.pc = "put",
                        !.written = [c.record EXCEPT !.CurrentIP = c.ip]]

\* ProcessUpdate from the answer of database.UpdateDDNSRecord, whose error is
\* printed only, to the CreateUpdateLog call: the event carries the clock as
\* it reads and is given the hostname's PK
ProcessUpdateStored2(c, err, t) ==
    [c EXCEPT !.pc = "log", !.put = TRUE, !.stored = ~err,
              !.logs = <<logUpdate(c.hostname, c.record.CurrentIP, c.ip,
                                   c.sourceIP, c.userAgent, "success",
                                   Stamp(t))>>]

\* ProcessUpdate from the answer of CreateUpdateLog, whose error is printed
\* only
ProcessUpdateLogged2(c, err) ==
    End2([c EXCEPT !.logErr = err], ResponseGood, "log")

\* ------------------------------------------------------------------------
\* Login lockout kept by AuthService (isIPLocked, recordLoginAttempt, Login)
\* ------------------------------------------------------------------------
ClientIPs == {"198.51.100.7"}

adminUsername == "admin"

adminPassword == "secret"

Usernames == {adminUsername, "root"}

Passwords == {adminPassword, "guess"}

\* the zero value of the service's LoginAttempt struct
ZeroAttempt ==
    [client_ip |-> "", success |-> FALSE, attempted_at |-> 0, failed_count |-> 0,
     locked_until |-> 0, TTL |-> 0]

\* isIPLocked from the answer of its GetItem; t is the clock as it reads then
isIPLocked(item, t, fail) ==
    IF fail THEN [locked |-> FALSE, err |-> TRUE]
    ELSE IF ~IsItem(item) THEN [locked |-> FALSE, err |-> FALSE]
    ELSE [locked |-> item.locked_until > 0 /\ t < item.locked_until,
          err |-> FALSE]

recordLoginAttempt_KeepCount(item, clientIP, t, success, fail) ==
    LET cur == IF IsItem(item) THEN item ELSE ZeroAttempt
        attempt == [cur EXCEPT !.client_ip = clientIP, !.success = success,
                               !.attempted_at = t,
                               !.TTL = t + attemptWindowDuration]
        windowStart == t - attemptWindowDuration
        counted == IF attempt.attempted_at < windowStart
                   THEN [attempt EXCEPT !.failed_count = 1]
                   ELSE [attempt EXCEPT !.failed_count = @ + 1]
        failed == IF counted.failed_count >= maxFailedAttempts
                  THEN [counted EXCEPT !.locked_until = t + lockoutDuration,
                                       !.TTL = t + lockoutDuration + 1]
                  ELSE counted
        reset == attempt
    IN
    IF fail THEN [err |-> TRUE, item |-> item]
    ELSE [err |-> FALSE, item |-> IF success THEN reset ELSE failed]

\* recordLoginAttempt from the answer of its GetItem to its PutItem: the item
\* it puts, computed from the item it read and the clock it read on entry;
\* fail: the GetItem fails and nothing is put
recordLoginAttempt(item, clientIP, t, success, fail) ==
    LET cur == IF IsItem(item) THEN item ELSE ZeroAttempt
        attempt == [cur EXCEPT !.client_ip = clientIP, !.success = success,
                               !.attempted_at = t,
                               !.TTL = t + attemptWindowDuration]
        windowStart == t - attemptWindowDuration
        counted == IF attempt.attempted_at < windowStart
                   THEN [attempt EXCEPT !.failed_count = 1]
                   ELSE [attempt EXCEPT !.failed_count = @ + 1]
        failed == IF counted.failed_count >= maxFailedAttempts
                  THEN [counted EXCEPT !.locked_until = t + lockoutDuration,
                                       !.TTL = t + lockoutDuration + 1]
                  ELSE counted
        reset == [attempt EXCEPT !.failed_count = 0, !.locked_until = 0]
    IN
    IF fail THEN [err |-> TRUE, item |-> item]
    ELSE [err |-> FALSE, item |-> IF success THEN reset ELSE failed]

\* One login operation: what it is (op), for which key, where it stands (pc),
\* the clock it read (t), the item it read (held) and the item it puts
\* (item); then what it did: its result, whether the credential was compared
\* and was the right one (passed), whether the lockout lookup or the session
\* store failed, whether the attempt was written to the store, whether that
\* write set the lockout, the session id it was given, and whether no other
\* login operation was in flight while it was (alone).
LoginCall(op, key, username, password, t) ==
    [op |-> op, pc |-> "called", key |-> key, username |-> username,
     password |-> password, t |-> t, held |-> NoItem, item |-> NoItem,
     result |-> "none", compared |-> FALSE, passed |-> FALSE,
     lookupErr |-> FALSE, sessionErr |-> FALSE, recorded |-> FALSE,
     lockSet |-> FALSE, sid |-> "", alone |-> TRUE]

\* the operation returns
Return(c, result) == [c EXCEPT !.pc = "done", !.result = result]

\* AuthService.Login from the answer of isIPLocked to the GetItem of
\* recordLoginAttempt
LoginLooked(c, lock) ==
    LET passed == c.username = adminUsername /\ c.password = adminPassword IN
    IF lock.err THEN Return([c EXCEPT !.lookupErr = TRUE], "error")
    ELSE IF lock.locked THEN Return(c, "locked")
    ELSE [c EXCEPT !.pc = "read", !.compared = TRUE, !.passed = passed]

\* Login once recordLoginAttempt has returned, its error dropped: wrong
\* credentials end it, right ones go on to CreateSession
LoginRecorded(c) ==
    IF c.passed THEN [c EXCEPT !.pc = "session"] ELSE Return(c, "invalid")

\* Login from the answer of the GetItem of recordLoginAttempt
LoginRead(c, item, fail) ==
    LET r == recordLoginAttempt(item, c.key, c.t, c.passed, fail) IN
    IF r.err THEN LoginRecorded(c)
    ELSE [c EXCEPT !.pc = "write", !.held = item, !.item = r.item]

\* Login from the answer of the PutItem of recordLoginAttempt
LoginWritten(c, fail) ==
    LoginRecorded([c EXCEPT !.recorded = ~fail,
                            !.lockSet = /\ ~fail /\ ~c.passed
                                        /\ c.item.locked_until > c.t
                                        /\ c.item.locked_until #
                                              (IF IsItem(c.held)
                                               THEN c.held.locked_until ELSE 0)])

\* Login from the answer of CreateSession
LoginSessioned(c, sessionID, fail) ==
    IF fail THEN Return([c EXCEPT !.sessionErr = TRUE], "error")
    ELSE Return([c EXCEPT !.sid = sessionID], "session")

\* ------------------------------------------------------------------------
\* Login lockout kept by the database Client (RecordLoginAttempt,
\* IsLoginLocked)
\* ------------------------------------------------------------------------
\* time.Time{}
ZeroTime == -1

IsZero(t) == t = ZeroTime

\* the zero value of the Client's LoginAttempt struct
ZeroEntry ==
    [FailedAttempts |-> 0, LastAttempt |-> FormatRFC3339(ZeroTime),
     LockedUntil |-> FormatRFC3339(ZeroTime), TTL |-> 0]

\* the first UpdateItem of Client.RecordLoginAttempt, one atomic operation of
\* the store: for a success SET FailedAttempts = 0, LastAttempt, LockedUntil =
\* the zero time and TTL; for a failure SET FailedAttempts =
\* if_not_exists(FailedAttempts, 0) + 1, LastAttempt and TTL, with
\* ReturnValues ALL_NEW
RecordLoginAttempt(item, t, success) ==
    LET cur == IF IsItem(item) THEN item ELSE ZeroEntry
        ttl == t + LoginAttemptTTLHours * 60
    IN
    IF success
    THEN [cur EXCEPT !.FailedAttempts = 0, !.LastAttempt = FormatRFC3339(t),
                     !.LockedUntil = FormatRFC3339(ZeroTime), !.TTL = ttl]
    ELSE [cur EXCEPT !.FailedAttempts = @ + 1,
                     !.LastAttempt = FormatRFC3339(t), !.TTL = ttl]

\* if attempt.FailedAttempts >= MaxLoginAttempts
ThresholdReached(attempt) == attempt.FailedAttempts >= MaxLoginAttempts

\* the second UpdateItem: SET LockedUntil = now + LoginLockoutMinutes, on the
\* item as the store holds it then
SetLockedUntil(item, t) ==
    LET cur == IF IsItem(item) THEN item ELSE ZeroEntry IN
    [cur EXCEPT !.LockedUntil = FormatRFC3339(t + LoginLockoutMinutes)]

IsLoginLocked(item, t, fail) ==
    IF fail THEN [locked |-> FALSE, err |-> TRUE]
    ELSE IF ~IsItem(item) THEN [locked |-> FALSE, err |-> FALSE]
    ELSE [locked |-> /\ ~IsZero(ParseRFC3339(item.LockedUntil))
                     /\ ParseRFC3339(item.LockedUntil) > t,
          err |-> FALSE]

\* ------------------------------------------------------------------------
\* Record administration (DDNSService)
\* ------------------------------------------------------------------------
\* generateToken: 32 random bytes, a value no credential had before
NewTokens == {"tok-new-1", "tok-new-2"}

AllTokens == Tokens \cup NewTokens

\* the TTLs an administrator submits
TTLs == {30, 60}

\* generateToken: random bytes, so that every call returns its own token
generateToken(p) == <<"tok-created", p>>

\* DDNSService.GetDDNSRecord
ServiceGetDDNSRecord(store, hostname, fail) ==
    LET record == GetDDNSRecord(store, hostname) IN
    IF fail \/ ~IsRecord(record) THEN [err |-> TRUE, record |-> NoRecord]
    ELSE [err |-> FALSE, record |-> record]

\* One administrative operation: what it is, for which hostname, where it
\* stands (pc), what it was given (ttl, enabled), the record it read, the
\* record set DeleteRecord found (target), the token it generated; then what
\* it did: whether it returned an error, whether the record existed, whether
\* the DNS removal was tried and failed, whether the store call failed; for
\* GetUpdateHistory the limit it was given and the events it returned.
AdminCall(op, hostname) ==
    [op |-> op, pc |-> "called", hostname |-> hostname, ttl |-> 0,
     enabled |-> FALSE, record |-> NoRecord, target |-> NoSet, token |-> "",
     limit |-> 0, logs |-> <<>>, err |-> FALSE, existed |-> FALSE,
     dnsTried |-> FALSE, dnsErr |-> FALSE, storeErr |-> FALSE, alone |-> TRUE]

IdleAdmin == [AdminCall("none", "") EXCEPT !.pc = "done"]

\* the operation returns
Returned(c, err) == [c EXCEPT !.pc = "done", !.err = err]

\* an operation from the answer of DDNSService.GetDDNSRecord, with which
\* RegenerateToken, UpdateDDNSRecord and DeleteDDNSRecord begin, to its next
\* call: DeleteDDNSRecord removes the DNS record of a bound record first
ServiceRead(c, got) ==
    LET read == [c EXCEPT !.record = got.record, !.existed = TRUE] IN
    IF got.err THEN Returned(c, TRUE)
    ELSE IF c.op # "DeleteDDNSRecord" THEN [read EXCEPT !.pc = "put"]
    ELSE IF got.record.CurrentIP # ""
    THEN [read EXCEPT !.pc = "list", !.dnsTried = TRUE]
    ELSE [read EXCEPT !.pc = "remove"]

\* DDNSService.DeleteDDNSRecord from the answer of Route53Client.DeleteRecord:
\* its error ends the operation, the record is left in the store
ServiceDeleteDeleted(c, err) ==
    IF err THEN Returned([c EXCEPT !.dnsErr = TRUE], TRUE)
    ELSE [c EXCEPT !.pc = "remove"]

\* DDNSService.DeleteDDNSRecord from the answer of Client.DeleteDDNSRecord
ServiceDeleteRemoved(c, err) == Returned([c EXCEPT !.storeErr = err], err)

\* the record DDNSService.RegenerateToken writes: the record as read, whole,
\* with the hash of the new token
RegenerateToken(record, token) == [record EXCEPT !.UpdateTokenHash = Hash(token)]

\* the record DDNSService.UpdateDDNSRecord writes: the record as read, whole,
\* with the TTL and the enabled flag it was given
ServiceUpdateDDNSRecord(record, ttl, enabled) ==
    [record EXCEPT !.TTL = ttl, !.Enabled = enabled]

\* RegenerateToken and UpdateDDNSRecord from the answer of
\* Client.UpdateDDNSRecord
ServiceWritten(c, token, err) ==
    Returned([c EXCEPT !.storeErr = err, !.token = IF err THEN "" ELSE token],
             err)

\* Client.CreateDDNSRecord: PutItem under the condition
\* attribute_not_exists(PK) AND attribute_not_exists(SK)
CreateDDNSRecord(store, record, fail) ==
    IF fail \/ IsRecord(GetDDNSRecord(store, record.Hostname))
    THEN [err |-> TRUE, store |-> store]
    ELSE [err |-> FALSE, store |-> [store EXCEPT ![record.Hostname] = record]]

\* DDNSService.CreateDDNSRecord up to its check for an existing record: a read
\* that fails for another reason than a missing record ends the call, a record
\* found ends it with ErrRecordExists
CheckExisting(store, hostname, fail) ==
    IF fail THEN [err |-> "error", found |-> FALSE]
    ELSE IF IsRecord(GetDDNSRecord(store, hostname))
    THEN [err |-> "exists", found |-> TRUE]
    ELSE [err |-> "", found |-> FALSE]

\* the record DDNSService.CreateDDNSRecord builds
NewRecord(hostname, ttl, token, t) ==
    [Hostname |-> hostname, ZoneID |-> Zone, TTL |-> ttl,
     UpdateTokenHash |-> Hash(token), CurrentIP |-> "", Enabled |-> TRUE,
     LastUpdated |-> t]

\* DDNSService.CreateDDNSRecord after the check: the token is generated and
\* hashed, the record is written, and the token is returned; a refused write is
\* reported as a failure to create the record
ServiceCreateDDNSRecord(store, hostname, ttl, token, t, fail) ==
    LET put == CreateDDNSRecord(store, NewRecord(hostname, ttl, token, t), fail)
    IN IF put.err THEN [err |-> "error", token |-> "", store |-> store]
       ELSE [err |-> "", token |-> token, store |-> put.store]

\* ------------------------------------------------------------------------
\* Sessions of the management UI (SessionManager, RequireAuth)
\* ------------------------------------------------------------------------
SessionTTLHours == 24

\* the ids uuid.New() returns
SessionIDs == {"sid-1", "sid-2"}

\* the values of the session_id cookie, "" for a request without one
Cookies == SessionIDs \cup {""}

\* SessionManager.CreateSession: the session is stored under a new id with
\* its creation time and its expiry SessionTTL later
CreateSession(store, sessionID, username, t, fail) ==
    IF fail THEN [err |-> TRUE, store |-> store]
    ELSE [err |-> FALSE,
          store |-> [store EXCEPT ![sessionID] =
                        [username |-> username, created_at |-> t,
                         expires_at |-> t + SessionTTLHours * 60,
                         TTL |-> t + SessionTTLHours * 60]]]

\* Client.CreateSession: PutItem of the session it is given under its id,
\* with the attributes Username, CreatedAt and TTL
ClientCreateSession(store, session, t, fail) ==
    IF fail THEN [err |-> TRUE, store |-> store]
    ELSE [err |-> FALSE,
          store |-> [store EXCEPT ![session.SK] =
                        [Username |-> session.Username, CreatedAt |-> t,
                         TTL |-> t + SessionTTLHours * 60]]]

\* Client.DeleteSession: DeleteItem of the key
ClientDeleteSession(store, sessionID, fail) ==
    IF fail THEN [err |-> TRUE, store |-> store]
    ELSE [err |-> FALSE, store |-> [store EXCEPT ![sessionID] = NoItem]]

\* SessionManager.DestroySession: DeleteItem of the key
DestroySession(store, sessionID, fail) ==
    IF sessionID = "" THEN [err |-> FALSE, store |-> store]
    ELSE IF fail THEN [err |-> TRUE, store |-> store]
    ELSE [err |-> FALSE, store |-> [store EXCEPT ![sessionID] = NoItem]]

\* attributevalue.UnmarshalMap into the Session of SessionManager: an
\* attribute the item does not carry leaves the zero value of its field
UnmarshalSession(item) ==
    [Username |-> IF "username" \in DOMAIN item THEN item.username
                  ELSE IF "Username" \in DOMAIN item THEN item.Username ELSE "",
     CreatedAt |-> IF "created_at" \in DOMAIN item THEN item.created_at
                   ELSE ZeroTime,
     ExpiresAt |-> IF "expires_at" \in DOMAIN item THEN item.expires_at
                   ELSE ZeroTime]

\* SessionManager.ValidateSession from the answer of its GetItem; an item
\* past its expiry is deleted next, the error of the deletion dropped
ValidateSession(item, sessionID, t, fail) ==
    IF sessionID = "" \/ fail \/ ~IsItem(item)
    THEN [err |-> TRUE, username |-> "", expired |-> FALSE]
    ELSE IF t > UnmarshalSession(item).ExpiresAt
    THEN [err |-> TRUE, username |-> "", expired |-> TRUE]
    ELSE [err |-> FALSE, username |-> UnmarshalSession(item).Username,
          expired |-> FALSE]

\* RequireAuth: without a cookie, or with one that does not validate, the
\* request is redirected to /login; otherwise the handler runs
RequireAuth(cookie, v) ==
    IF cookie = "" \/ v.err THEN [next |-> FALSE, redirect |-> "/login"]
    ELSE [next |-> TRUE, redirect |-> ""]

\* AuthHandler.PostLogout: the session named by the cookie is destroyed, the
\* error dropped, the cookie cleared and the request redirected to /login
PostLogout(store, cookie, fail) ==
    [redirect |-> "/login", cleared |-> TRUE,
     store |-> DestroySession(store, cookie, fail).store]

\* ------------------------------------------------------------------------
\* Sessions and login of the package (database.CreateSession, GetSession,
\* DeleteSession; service.AuthService)
\* ------------------------------------------------------------------------
\* database.CreateSession: PutItem of the session it is given, stamped with
\* the time and an expiry 24 hours later
CreateSession2(store, session, t, fail) ==
    IF fail THEN [err |-> TRUE, store |-> store]
    ELSE [err |-> FALSE,
          store |-> [store EXCEPT ![session.SessionID] =
                        [session_id |-> session.SessionID,
                         username |-> session.Username, created_at |-> t,
                         expires_at |-> t + 24 * 60,
                         ttl |-> t + 24 * 60]]]

\* database.GetSession: no session for an item that is absent or past its
\* expiry
GetSession2(store, sessionID, t, fail) ==
    IF fail THEN [err |-> TRUE, session |-> NoItem]
    ELSE IF ~IsItem(store[sessionID]) THEN [err |-> FALSE, session |-> NoItem]
    ELSE IF t > store[sessionID].expires_at THEN [err |-> FALSE, session |-> NoItem]
    ELSE [err |-> FALSE, session |-> store[sessionID]]

\* database.DeleteSession: DeleteItem of the key
DeleteSession2(store, sessionID, fail) ==
    IF fail THEN [err |-> TRUE, store |-> store]
    ELSE [err |-> FALSE, store |-> [store EXCEPT ![sessionID] = NoItem]]

\* the session manager of the package: a session is valid when GetSession
\* returns one without error
ValidSession2(got) == ~got.err /\ IsItem(got.session)

\* RequireAuth of the package
RequireAuth2(cookie, valid) ==
    IF cookie = "" \/ ~valid THEN [next |-> FALSE, redirect |-> "/login"]
    ELSE [next |-> TRUE, redirect |-> ""]

\* is_locked_out of the limiter: the key is locked while its locked-until
\* lies in the future
IsAccountLocked(item, t, fail) ==
    IF fail THEN [err |-> TRUE, locked |-> FALSE]
    ELSE [err |-> FALSE, locked |-> IsItem(item) /\ item.locked_until > t]

\* record_auth_failure and record_auth_success of the limiter: the fifth
\* failure in a row sets a lockout of fifteen minutes and resets the counter,
\* a success clears both
RecordLoginAttempt2(item, t, success, fail) ==
    LET old == IF IsItem(item) THEN item
               ELSE [failed_count |-> 0, locked_until |-> 0]
        n == old.failed_count + 1
    IN
    IF fail THEN [err |-> TRUE, locked |-> FALSE, item |-> item]
    ELSE IF success
    THEN [err |-> FALSE, locked |-> FALSE,
          item |-> [failed_count |-> 0, locked_until |-> 0]]
    ELSE IF n >= MaxLoginAttempts
    THEN [err |-> FALSE, locked |-> TRUE,
          item |-> [failed_count |-> 0, locked_until |-> t + lockoutDuration]]
    ELSE [err |-> FALSE, locked |-> FALSE,
          item |-> [old EXCEPT !.failed_count = n]]

\* One login of the package: where it stands (pc), whether the credentials
\* are the right ones, its result and the session id it was given
LoginCall2(username, password) ==
    [op |-> "Login2", pc |-> "called", username |-> username,
     passed |-> username = adminUsername /\ password = adminPassword,
     result |-> "none", sid |-> ""]

\* AuthService.Login of the package from the answer of IsAccountLocked
Login2Looked(c, lock) ==
    IF lock.err THEN Return(c, "error")
    ELSE IF lock.locked THEN Return(c, "locked")
    ELSE [c EXCEPT !.pc = "record"]

\* from the answer of RecordLoginAttempt, its error dropped
Login2Recorded(c, r) ==
    IF c.passed THEN [c EXCEPT !.pc = "session"]
    ELSE IF r.locked THEN Return(c, "locked")
    ELSE Return(c, "invalid")

\* from the answer of CreateSession
Login2Sessioned(c, sessionID, err) ==
    IF err THEN Return(c, "error")
    ELSE Return([c EXCEPT !.sid = sessionID], "session")

\* DDNSService.DeleteDDNSRecord from the answer of the ListRecords call of
\* Route53Client.DeleteRecord: a failed listing or a listing without the
\* record set ends DeleteRecord with an error, and that ends the operation
ServiceDeleteListed(c, listing) ==
    LET target == DeleteTarget(listing.records, c.hostname, OldRecordType(c)) IN
    IF listing.err \/ target = NoSet THEN ServiceDeleteDeleted(c, TRUE)
    ELSE [c EXCEPT !.pc = "delete", !.target = target]
\* ------------------------------------------------------------------------
\* The zone-list cache (route53 package and Route53Client)
\* ------------------------------------------------------------------------
\* a nil slice, and the listings the provider can answer with; a provider
\* without hosted zones leaves the slice nil
Nil == <<>>

Listings == {Nil, <<"Z1">>, <<"Z1", "Z2">>}

\* the zero zoneCache of the package, and a sync.Map without the key
EmptyZoneCache == [zones |-> Nil, fetchedAt |-> 0]

getCachedZones(cache, t) ==
    IF cache.zones # Nil /\ t - cache.fetchedAt < cacheTTL THEN cache.zones
    ELSE Nil

setCachedZones(zones, t) == [zones |-> zones, fetchedAt |-> t]

InvalidateCache(cache) == [cache EXCEPT !.zones = Nil]

\* cacheEntry.isValid at the time t
isValid(entry, t) == t < entry.expiresAt

setInCache(data, t) == [data |-> data, expiresAt |-> t + CacheTTL]

\* the ids a hosted zone is asked for by
ZoneIDs == {"Z1", "Z2"}

HasZone(zones, zoneID) == \E i \in 1..Len(zones) : zones[i] = zoneID

\* A call of ListZones or ListHostedZones ("list", zones: the listing it
\* returns) or of GetZone or GetHostedZone ("get", zones: the id asked for),
\* as it begins.  entry: the cache entry getFromCache loaded; first: no call
\* had begun since the cache was invalidated with no call in flight; dropped:
\* its getFromCache deleted an entry that was valid.
ZoneCall(op, zones, first) ==
    [op |-> op, pc |-> "load", from |-> "", zones |-> zones, fetchedAt |-> 0,
     entry |-> NoItem, first |-> first, dropped |-> FALSE]

\* the lookup ListZones and GetZone of the package begin with
CachedZones(cache, t) ==
    LET cached == getCachedZones(cache, t) IN
    [ok |-> cached # Nil, data |-> cached]

\* ListZones and ListHostedZones after the lookup: a valid listing is
\* returned, otherwise the provider is asked
ListLookup(c, got) ==
    IF got.ok THEN [c EXCEPT !.pc = "done", !.from = "cache", !.zones = got.data]
    ELSE [c EXCEPT !.pc = "fetch"]

\* GetZone and GetHostedZone after the lookup: the zone is taken from a valid
\* cached listing that holds it, otherwise the provider is asked
GetLookup(c, got) ==
    IF got.ok /\ HasZone(got.data, c.zones[1])
    THEN [c EXCEPT !.pc = "done", !.from = "cache"]
    ELSE [c EXCEPT !.pc = "fetch"]

Looked(c, got) == IF c.op = "list" THEN ListLookup(c, got) ELSE GetLookup(c, got)

\* Route53Client.getFromCache, operation by operation on the sync.Map, which
\* no lock spans.  Its Load: without an entry under the key the lookup has
\* missed, otherwise the entry loaded is kept
getFromCache(c, cache) ==
    IF ~IsItem(cache) THEN Looked(c, [ok |-> FALSE, data |-> Nil])
    ELSE [c EXCEPT !.pc = "valid", !.entry = cache]

\* its test of the entry it loaded, at the time t: the data of a valid entry
\* is returned, an entry no longer valid is to be deleted
Validated(c, t) ==
    IF isValid(c.entry, t) THEN Looked(c, [ok |-> TRUE, data |-> c.entry.data])
    ELSE [c EXCEPT !.pc = "delete"]

\* its Delete of the key, whatever entry cache the key holds by then, at the
\* time t; the lookup has missed
Deleted(c, cache, t) ==
    Looked([c EXCEPT !.dropped = IsItem(cache) /\ isValid(cache, t)],
           [ok |-> FALSE, data |-> Nil])

\* the provider's ListHostedZones answers the call c at the time t, or fails;
\* the listings of the model come in one page (IsTruncated is false)
ListFetched(c, provider, t, fail) ==
    IF fail THEN [c EXCEPT !.pc = "done", !.from = "error"]
    ELSE [c EXCEPT !.pc = "store", !.zones = provider, !.fetchedAt = t]

\* the listing is stored and returned
ListStored(c) == [c EXCEPT !.pc = "done", !.from = "provider"]

\* the provider's GetHostedZone answers: the zone, or an error for an id it
\* has no hosted zone of; nothing is stored
GetFetched(c, provider, t, fail) ==
    IF fail \/ ~HasZone(provider, c.zones[1])
    THEN [c EXCEPT !.pc = "done", !.from = "error", !.zones = Nil]
    ELSE [c EXCEPT !.pc = "done", !.from = "provider", !.fetchedAt = t]

\* ------------------------------------------------------------------------
\* CSRF protection and the routes (SetupRoutes of both implementations)
\* ------------------------------------------------------------------------
\* a path is its text, lower case and without a trailing slash
Paths ==
    {"/", "/login", "/logout", "/nic/update", "/nic/update2", "/zones", "/ddns",
     "/ddns/home.example.com"}

Methods == {"GET", "HEAD", "OPTIONS", "POST", "PUT", "DELETE"}

\* the values of the csrf_token cookie, of the X-CSRF-Token header and of the
\* form field; "" for none
CSRFTokens == {"", "csrf-1", "csrf-2"}

\* strings.HasPrefix: s begins with the characters of prefix
HasPrefix(s, prefix) ==
    Len(s) >= Len(prefix) /\ SubSeq(s, 1, Len(prefix)) = prefix

\* the segments of the text from its i-th character on, cur being the segment
\* begun
RECURSIVE SegmentsFrom(_, _, _)
SegmentsFrom(s, i, cur) ==
    LET done == IF cur = "" THEN <<>> ELSE <<cur>> IN
    IF i > Len(s) THEN done
    ELSE IF SubSeq(s, i, i) = "/" THEN done \o SegmentsFrom(s, i + 1, "")
    ELSE SegmentsFrom(s, i + 1, cur \o SubSeq(s, i, i))

Segments(s) == SegmentsFrom(s, 1, "")

\* the path matches the pattern of a route: segment by segment, a segment
\* :name of the pattern standing for any segment
MatchPath(pattern, path) ==
    LET ps == Segments(pattern)
        qs == Segments(path)
    IN /\ Len(ps) = Len(qs)
       /\ \A i \in 1..Len(ps) : HasPrefix(ps[i], ":") \/ ps[i] = qs[i]

\* the entries of the router's stack.  Use: a middleware for every method and
\* path (both routers install theirs on the root).  Get registers its handler
\* for HEAD as well as for GET.
Use(handler) == <<[use |-> TRUE, method |-> "", path |-> "/", handler |-> handler]>>

Add(method, path, handler) ==
    <<[use |-> FALSE, method |-> method, path |-> path, handler |-> handler]>>

Get(path, handler) == Add("HEAD", path, handler) \o Add("GET", path, handler)

Post(path, handler) == Add("POST", path, handler)

Put(path, handler) == Add("PUT", path, handler)

Delete(path, handler) == Add("DELETE", path, handler)

\* SetupRoutes of the client implementation: the public routes, then the
\* protected group with RequireAuth and CSRFProtection
SetupRoutes ==
    Use("RequestLogger")
    \o Get("/", "Redirect")
    \o Get("/ip", "GetIP")
    \o Get("/login", "GetLogin")
    \o Post("/login", "PostLogin")
    \o Post("/logout", "PostLogout")
    \o Get("/nic/update", "HandleUpdate")
    \o Use("RequireAuth")
    \o Use("CSRFProtection")
    \o Get("/zones", "ListZones")
    \o Get("/zones/:zoneId", "GetZone")
    \o Get("/zones/:zoneId/records", "GetZoneRecords")
    \o Get("/ddns", "ListDDNS")
    \o Get("/ddns/new", "NewDDNSForm")
    \o Post("/ddns", "CreateDDNS")
    \o Get("/ddns/:hostname", "GetDDNS")
    \o Put("/ddns/:hostname", "UpdateDDNS")
    \o Post("/ddns/:hostname", "UpdateDDNS")
    \o Delete("/ddns/:hostname", "DeleteDDNS")
    \o Post("/ddns/:hostname/regenerate-token", "RegenerateToken")
    \o Get("/ddns/:hostname/history", "GetHistory")

\* SetupRoutes of the package-level implementation: CSRF on the whole app
SetupRoutes2 ==
    Use("Logging")
    \o Use("CSRF")
    \o Get("/", "Redirect")
    \o Get("/login", "LoginPage")
    \o Post("/login", "Login")
    \o Post("/logout", "Logout")
    \o Get("/ip", "GetIP")
    \o Get("/nic/update", "Update")
    \o Use("RequireAuth")
    \o Get("/zones", "ListZones")
    \o Get("/zones/:zoneId", "ZoneDetail")
    \o Get("/ddns", "ListDDNS")
    \o Get("/ddns/new", "NewDDNSForm")
    \o Post("/ddns", "CreateDDNS")
    \o Get("/ddns/:hostname", "DDNSDetail")
    \o Put("/ddns/:hostname", "UpdateDDNS")
    \o Post("/ddns/:hostname", "UpdateDDNS")
    \o Delete("/ddns/:hostname", "DeleteDDNS")
    \o Post("/ddns/:hostname/delete", "DeleteDDNS")
    \o Post("/ddns/:hostname/regenerate-token", "RegenerateToken")
    \o Get("/ddns/:hostname/history", "DDNSHistory")

\* what a middleware or handler answers: whether the chain goes on, the
\* status, and which of them ended the request
Answer(next, status, by) == [next |-> next, status |-> status, by |-> by]

\* getSubmittedToken: the header first, then the form field
getSubmittedToken(header, form) == IF header # "" THEN header ELSE form

\* CSRFProtection: a request without the cookie is given a fresh token
CSRFProtection(method, path, cookie, header, form) ==
    LET token == IF cookie = "" THEN "csrf-fresh" ELSE cookie
        submittedToken == getSubmittedToken(header, form)
    IN
    IF HasPrefix(path, "/nic/update") THEN Answer(TRUE, 0, "")
    ELSE IF method \in {"GET", "HEAD", "OPTIONS"} THEN Answer(TRUE, 0, "")
    ELSE IF submittedToken = "" THEN Answer(FALSE, 403, "csrf")
    ELSE IF token # submittedToken THEN Answer(FALSE, 403, "csrf")
    ELSE Answer(TRUE, 0, "")

\* CSRF of the package-level router: the form field first, then the header;
\* randFails: crypto/rand fails and generateToken returns ""
CSRF(method, path, cookie, header, form, randFails) ==
    LET token == IF cookie # "" THEN cookie
                 ELSE IF randFails THEN "" ELSE "csrf-fresh"
        submittedToken == IF form # "" THEN form ELSE header
    IN
    IF method \in {"GET", "HEAD", "OPTIONS"} THEN Answer(TRUE, 0, "")
    ELSE IF path = "/nic/update" THEN Answer(TRUE, 0, "")
    ELSE IF token # submittedToken THEN Answer(FALSE, 403, "csrf")
    ELSE Answer(TRUE, 0, "")

\* the handler of a stack entry answers the request; session: the session
\* cookie validates in RequireAuth.  A handler of a route ends the request:
\* the root route redirects, of every other one the model keeps that it ran.
Handle(handler, req) ==
    IF handler \in {"RequestLogger", "Logging"} THEN Answer(TRUE, 0, "")
    ELSE IF handler = "RequireAuth"
    THEN IF req.session THEN Answer(TRUE, 0, "") ELSE Answer(FALSE, 302, "auth")
    ELSE IF handler = "CSRFProtection"
    THEN CSRFProtection(req.method, req.path, req.cookie, req.header, req.form)
    ELSE IF handler = "CSRF"
    THEN CSRF(req.method, req.path, req.cookie, req.header, req.form,
              req.randFails)
    ELSE IF handler = "Redirect" THEN Answer(FALSE, 302, "handler")
    ELSE Answer(FALSE, 200, "handler")

\* the entry takes the request
Matches(entry, req) ==
    entry.use \/ (entry.method = req.method /\ MatchPath(entry.path, req.path))

\* the path has a route for the method
IsRoute(stack, method, path) ==
    \E i \in 1..Len(stack) :
        ~stack[i].use /\ stack[i].method = method /\ MatchPath(stack[i].path, path)

\* the path has a route for another method
methodExist(stack, req) ==
    \E m \in Methods \ {req.method} : IsRoute(stack, m, req.path)

\* the router: the entries of the stack in the order of their registration,
\* from the i-th on; a request no route takes is answered 405 when its path
\* has a route for another method, 404 otherwise
RECURSIVE Routed(_, _, _)
Routed(stack, i, req) ==
    IF i > Len(stack)
    THEN IF methodExist(stack, req) THEN Answer(FALSE, 405, "router")
         ELSE Answer(FALSE, 404, "router")
    ELSE IF ~Matches(stack[i], req) THEN Routed(stack, i + 1, req)
    ELSE LET a == Handle(stack[i].handler, req) IN
         IF a.next THEN Routed(stack, i + 1, req) ELSE a


\* ------------------------------------------------------------------------
\* State
\* ------------------------------------------------------------------------
VARIABLES
    impl,       \* which implementation serves the requests
    now,        \* the clock, in minutes
    ddns,       \* record store: hostname -> DDNSRecord or NoRecord
    zone,       \* DNS backend: hostname -> its A and AAAA record sets
    limits,     \* rate counters: hostname -> RateLimitEntry or NoItem
    updateLog,  \* PK -> the number of CreateUpdateLog calls made with an event
                \* stored under it that returned without error
    inWindow,   \* hostname -> limiter increments made for it in the current minute
    nreq,       \* requests begun so far
    last,       \* the request that returned most recently, and what it did
    unit,       \* which lockout code the login operations go through
    attempts,   \* login attempt store: client address -> item or NoItem
    seen,       \* the login operation that returned most recently
    nfault,     \* calls to the stores and to the DNS backend that failed so far
    issued,     \* hostname -> the credentials RegenerateToken returned, in order
    adm,        \* the administrative operation that returned most recently
    procs,      \* the requests and operations in flight: slot -> where it
                \* stands and what it holds
    logTable,   \* the items of the event log table
    sessions,   \* session store: session id -> Session or NoItem
    web,        \* what the most recent request to the management UI was and did
    r53         \* the zone-list cache, the provider's listing and the latest call

pipeline == <<impl, ddns, zone, limits, updateLog, inWindow, nreq, last>>

logins == <<unit, attempts, seen>>

admin == <<issued, adm, procs, logTable, sessions, web, r53>>

vars == <<now, nfault, pipeline, logins, admin>>

DDNSRecord(hostname, currentIP, enabled) ==
    [Hostname |-> hostname, ZoneID |-> Zone, TTL |-> 60,
     UpdateTokenHash |-> Hash(GoodToken), CurrentIP |-> currentIP,
     Enabled |-> enabled, LastUpdated |-> 0]

\* a record as CreateDDNSRecord leaves it, possibly disabled since, possibly
\* bound by an earlier update
InitRecords ==
    {NoRecord} \cup
    {DDNSRecord(h, ip, e) : h \in Hosts, ip \in {"", "1.2.3.4"}, e \in BOOLEAN}

\* the zone content that goes with a bound record
ZoneOf(record) ==
    IF ~IsRecord(record) \/ record.CurrentIP = "" THEN NoDNS
    ELSE [NoDNS EXCEPT ![RecordTypeOf(isValidIP(record.CurrentIP).isIPv6)] =
                           RRSet(record.CurrentIP, record.TTL)]

\* the limiter's starting points: a bound, enabled record and the counter as
\* left by that many requests made in minute 0
RateRecords == {DDNSRecord(h, "1.2.3.4", TRUE) : h \in Hosts}

RateCounts == {MaxRequestsPerWindow - 1, MaxRequestsPerWindow}

RateLimitEntry(impl0, count) ==
    IF count = 0 THEN NoItem
    ELSE IF impl0 = "client"
    THEN [Count |-> count, WindowStart |-> FormatRFC3339(0),
          TTL |-> RateLimitTTLMinutes]
    ELSE [Count |-> count, WindowStart |-> 0]

LogKeys == {<<"LOG#", x>> : x \in LogHosts \cup IPv4s \cup IPv6s \cup {""}}

Units == {"AuthService", "Client"}

\* no login operation returned yet.  The counts are those that held before
\* the operation: fails, the failures made in a row since the last success,
\* and failAt, the time of the latest; streak and streakAt, the same for the
\* failures whose write to the store succeeded; sinceLock, the written
\* failures since the last success or lockout.  serial says that no two login
\* operations have been in flight together so far.
IdleLogin == [op |-> "none", key |-> "", at |-> 0, result |-> "none",
              event |-> "none", compared |-> FALSE, correct |-> FALSE,
              lookupErr |-> FALSE, sessionErr |-> FALSE, recorded |-> FALSE,
              lockSet |-> FALSE, fails |-> 0, failAt |-> 0, streak |-> 0,
              streakAt |-> 0, sinceLock |-> 0, serial |-> TRUE]

\* no request to the management UI made yet; created and ended are the ids
\* logins returned and those of them logouts were made with, createdAt the time
\* each id was returned
IdleWeb == [op |-> "none", at |-> 0, cookie |-> "", ran |-> FALSE, redirect |-> "",
            created |-> {}, ended |-> {},
            createdAt |-> [id \in SessionIDs |-> 0]]

\* the slots of the requests and operations that run concurrently
Procs == 1..MaxProcs

\* a free slot
IdleProc == [op |-> "none", stage |-> "idle"]

\* provider: the listing the provider answers with; zoneCache and entry: the
\* cache of the package and the hosted_zones entry of Route53Client; stored:
\* the listings stored since the cache was last invalidated with no call in
\* flight, each with the time the provider answered it; fresh: no call has
\* begun since then; then
\* the call that returned most recently: what it was, where its answer came
\* from, the answer, and its first and dropped
IdleZones ==
    [provider |-> Nil, zoneCache |-> EmptyZoneCache, entry |-> NoItem,
     stored |-> {}, fresh |-> FALSE,
     op |-> "none", from |-> "", zones |-> Nil, first |-> FALSE,
     dropped |-> FALSE]

\* no administrative operation made yet, nothing in flight
NoAdmin ==
    /\ issued = [h \in Hosts |-> <<>>]
    /\ adm = IdleAdmin
    /\ procs = [p \in Procs |-> IdleProc]
    /\ logTable = {}
    /\ sessions = [id \in SessionIDs |-> NoItem]
    /\ web = IdleWeb
    /\ r53 = IdleZones

\* no login operation made yet
NoLogins(units) ==
    /\ nfault = 0
    /\ unit \in units
    /\ attempts = [k \in ClientIPs \cup Usernames |-> NoItem]
    /\ seen = IdleLogin

\* the state after construction and provisioning: one record state for every
\* hostname, one counter state, nothing served yet
InitWith(records, counts) ==
    /\ NoLogins({"AuthService"})
    /\ NoAdmin
    /\ impl \in Impls
    /\ now = 0
    /\ \E r \in records :
          /\ ddns = [h \in Hosts |-> IF IsRecord(r) THEN [r EXCEPT !.Hostname = h]
                                     ELSE NoRecord]
          /\ zone = [h \in Hosts |-> ZoneOf(r)]
    /\ \E c \in counts :
          /\ limits = [h \in Hosts |-> RateLimitEntry(impl, c)]
          /\ inWindow = [h \in Hosts |-> c]
    /\ updateLog = [k \in LogKeys |-> 0]
    /\ nreq = 0
    /\ last = Idle

Init == InitWith(InitRecords, {0})

InitRate == InitWith(RateRecords, RateCounts)

NoRecords == [h \in Hosts |-> NoRecord]

NoItems == [h \in Hosts |-> NoItem]

\* ------------------------------------------------------------------------
\* Requests and operations in flight
\* ------------------------------------------------------------------------
\* the token of the request is the one whose hash the record stores
Authorized(store, hostname, auth) ==
    LET r == GetDDNSRecord(store, hostname) IN
    /\ IsRecord(r)
    /\ auth # NoHeader
    /\ r.UpdateTokenHash = Hash(auth[2])

BoundIP(store, hostname) ==
    LET r == GetDDNSRecord(store, hostname) IN
    IF IsRecord(r) THEN r.CurrentIP ELSE ""

\* a call fails only while fewer than MaxFaults have
Failing(f, none) ==
    /\ f # none => nfault < MaxFaults
    /\ nfault' = IF f # none THEN nfault + 1 ELSE nfault

InFlight == {p \in Procs : procs[p] # IdleProc}

Free == Procs \ InFlight

\* the slot a new request or operation takes
Slot == CHOOSE p \in Free : \A q \in Free : p <= q

\* the requests and operations in flight are no longer alone
Joined ==
    [q \in Procs |-> IF "alone" \in DOMAIN procs[q]
                     THEN [procs[q] EXCEPT !.alone = FALSE] ELSE procs[q]]

AdminOps == {"RegenerateToken", "UpdateDDNSRecord", "DeleteDDNSRecord",
             "GetUpdateHistory"}

\* The request as it is once it has returned, next to the one that returned
\* before it
Observe(c) ==
    LET both == c.alone /\ last.alone /\ last.op = "update"
                /\ last.hostname = c.hostname /\ last.ip = c.ip
                /\ last.cred /\ c.cred /\ Len(last.body) > 0
        same == /\ both /\ ~last.mismatch /\ ~c.mismatch
                /\ Code(last.body) = ResponseGood
        replay == /\ both /\ last.myip = c.myip /\ last.mismatch = c.mismatch
                  /\ Code(last.body) = ResponseNoChg
    IN [c EXCEPT !.afterGood = same, !.afterStored = same /\ last.stored,
                 !.afterNoChg = replay]

\* the request or operation in slot p has taken a step and is now c: one that
\* has returned frees its slot and is the latest of its kind
Proceed(p, c) ==
    /\ procs' = [procs EXCEPT ![p] = IF c.pc = "done" THEN IdleProc ELSE c]
    /\ last' = IF c.pc = "done" /\ c.op = "update" THEN Observe(c) ELSE last
    /\ adm' = IF c.pc = "done" /\ c.op \in AdminOps THEN c ELSE adm

\* a request or operation begins, as c
Arrived(c) ==
    LET alone == [c EXCEPT !.alone = (InFlight = {})] IN
    /\ Free # {}
    /\ procs' = IF c.pc = "done" THEN Joined ELSE [Joined EXCEPT ![Slot] = alone]
    /\ last' = IF c.pc = "done" /\ c.op = "update" THEN Observe(alone) ELSE last
    /\ adm' = IF c.pc = "done" /\ c.op \in AdminOps THEN alone ELSE adm

\* ------------------------------------------------------------------------
\* GET /nic/update, impl "client": the middleware, the handler and the
\* pipeline, one step for every call they make
\* ------------------------------------------------------------------------
\* a request arrives with one of these queries, source addresses and
\* Authorization headers and runs up to its first call
Arrival(queries, sources, auths) ==
    /\ nreq < MaxReq
    /\ \E q \in queries, sourceIP \in sources, auth \in auths, ua \in UserAgents :
          LET c == [Request(q[1], q[2], sourceIP, auth, ua) EXCEPT
                       !.cred = Authorized(ddns, q[1], auth)]
          IN Arrived(IF impl = "client" THEN DDNSUpdateRateLimitEnter(c, now)
                     ELSE Update2(c))
    /\ nreq' = nreq + 1
    /\ UNCHANGED <<impl, now, nfault, ddns, zone, limits, updateLog, inWindow,
                   logins, issued, logTable, sessions, web, r53>>

\* GET /nic/update served by the Client-based implementation
NicUpdate == impl = "client" /\ Arrival(Queries, SourceIPs, AuthHeaders)

\* the first UpdateItem of IncrementRateLimit
LimitAdd ==
    /\ impl = "client"
    /\ \E p \in Procs, fail \in BOOLEAN :
          LET c == procs[p]
              entry == UpdateItemAdd(limits[c.hostname], c.t)
          IN
          /\ c.op = "update" /\ c.pc = "limit"
          /\ Failing(fail, FALSE)
          /\ IF fail
             THEN /\ limits' = limits
                  /\ inWindow' = inWindow
                  /\ Proceed(p, DDNSUpdateRateLimit(c, 0, TRUE))
             ELSE /\ limits' = [limits EXCEPT ![c.hostname] = entry]
                  /\ inWindow' = [inWindow EXCEPT ![c.hostname] = @ + 1]
                  /\ Proceed(p, [c EXCEPT !.pc = "counted", !.entry = entry,
                                          !.nth = inWindow[c.hostname] + 1])
    /\ UNCHANGED <<impl, now, ddns, zone, updateLog, nreq, logins, issued,
                   logTable, sessions, web, r53>>

\* the comparison of the returned window start, the second UpdateItem when
\* they differ, and the middleware's decision on the count
LimitReturn ==
    /\ impl = "client"
    /\ \E p \in Procs, fail \in BOOLEAN :
          LET c == procs[p]
              reset == UpdateItemReset(limits[c.hostname], c.t)
          IN
          /\ c.op = "update" /\ c.pc = "counted"
          /\ fail => WindowChanged(c.entry, c.t)
          /\ Failing(fail, FALSE)
          /\ IF ~WindowChanged(c.entry, c.t)
             THEN /\ limits' = limits
                  /\ Proceed(p, DDNSUpdateRateLimit(c, c.entry.Count, FALSE))
             ELSE IF fail
             THEN /\ limits' = limits
                  /\ Proceed(p, DDNSUpdateRateLimit(c, 0, TRUE))
             ELSE /\ limits' = [limits EXCEPT ![c.hostname] = reset]
                  /\ Proceed(p, DDNSUpdateRateLimit(c, reset.Count, FALSE))
    /\ UNCHANGED <<impl, now, ddns, zone, updateLog, inWindow, nreq, logins,
                   issued, logTable, sessions, web, r53>>

\* the GetDDNSRecord call of ProcessUpdate
ReadRecord ==
    /\ impl = "client"
    /\ \E p \in Procs, fail \in BOOLEAN :
          LET c == procs[p]
              read == ProcessUpdateRead(c, GetDDNSRecord(ddns, c.hostname), fail,
                                        now)
              absent == ProcessUpdateRead(c, NoRecord, FALSE, now)
          IN
          /\ c.op = "update" /\ c.pc = "get"
          /\ Failing(fail, FALSE)
          /\ Proceed(p, [read EXCEPT !.ifAbsent = IF read.hit = "disabled"
                                                  THEN Wire(absent) ELSE <<>>])
    /\ UNCHANGED <<impl, now, ddns, zone, limits, updateLog, inWindow, nreq,
                   logins, issued, logTable, sessions, web, r53>>

\* the ListRecords call of Route53Client.DeleteRecord, made by ProcessUpdate
\* and by DDNSService.DeleteDDNSRecord
DeleteRecordList ==
    /\ \E p \in Procs, fail \in BOOLEAN :
          LET c == procs[p]
              listing == ListRecords(zone, fail)
          IN
          /\ c.op \in {"update", "DeleteDDNSRecord"} /\ c.pc = "list"
          /\ Failing(fail, FALSE)
          /\ Proceed(p, IF c.op = "update" THEN ProcessUpdateListed(c, listing)
                        ELSE ServiceDeleteListed(c, listing))
    /\ UNCHANGED <<impl, now, ddns, zone, limits, updateLog, inWindow, nreq,
                   logins, issued, logTable, sessions, web, r53>>

\* the ChangeResourceRecordSets call of Route53Client.DeleteRecord
DeleteRecordChange ==
    /\ \E p \in Procs, fail \in BOOLEAN :
          LET c == procs[p]
              del == ChangeDelete(zone, c.hostname, OldRecordType(c), c.target,
                                  fail)
          IN
          /\ c.op \in {"update", "DeleteDDNSRecord"} /\ c.pc = "delete"
          /\ Failing(fail, FALSE)
          /\ zone' = del.zone
          /\ Proceed(p, IF c.op = "update" THEN ProcessUpdateDeleted(c, del.err)
                        ELSE ServiceDeleteDeleted(c, del.err))
    /\ UNCHANGED <<impl, now, ddns, limits, updateLog, inWindow, nreq, logins,
                   issued, logTable, sessions, web, r53>>

\* the UpsertRecord call of ProcessUpdate
Upsert ==
    /\ impl = "client"
    /\ \E p \in Procs, fail \in BOOLEAN :
          LET c == procs[p]
              ipToUse == IpToUse(c.myip, c.sourceIP)
              ups == UpsertRecord(zone, c.hostname,
                                  RecordTypeOf(isValidIP(ipToUse).isIPv6),
                                  ipToUse, c.record.TTL, fail)
          IN
          /\ c.op = "update" /\ c.pc = "upsert"
          /\ Failing(fail, FALSE)
          /\ zone' = ups.zone
          /\ Proceed(p, ProcessUpdateUpserted(c, ups.err, now))
    /\ UNCHANGED <<impl, now, ddns, limits, updateLog, inWindow, nreq, logins,
                   issued, logTable, sessions, web, r53>>

\* the UpdateDDNSRecord call of ProcessUpdate: the record as the request read
\* it, with the new address, is put when the key still has an item
WriteRecord ==
    /\ impl = "client"
    /\ \E p \in Procs, fail \in BOOLEAN :
          LET c == procs[p]
              upd == UpdateDDNSRecord(ddns, c.written, now, fail)
          IN
          /\ c.op = "update" /\ c.pc = "put"
          /\ Failing(fail, FALSE)
          /\ ddns' = upd.store
          /\ Proceed(p, ProcessUpdateStored(c, upd.err, now))
    /\ UNCHANGED <<impl, now, zone, limits, updateLog, inWindow, nreq, logins,
                   issued, logTable, sessions, web, r53>>

\* the table took the item: it holds it, and a failed call did not bring it
Took(before, after, item, fail) ==
    item \in after /\ (fail => item \notin before)

\* the CreateUpdateLog call of logUpdate, with which the request returns
WriteLog ==
    /\ impl = "client"
    /\ \E p \in Procs, fail \in BOOLEAN :
          LET c == procs[p]
              log == c.logs[1]
              after == CreateUpdateLog(logTable, log, now, fail)
              done == ProcessUpdateLogged(c, fail)
          IN
          /\ c.op = "update" /\ c.pc = "log"
          /\ Failing(fail, FALSE)
          /\ logTable' = after
          /\ updateLog' = IF fail THEN updateLog
                          ELSE [updateLog EXCEPT ![LogItem(log, now).PK] = @ + 1]
          /\ Proceed(p, [done EXCEPT
                            !.logged = Took(logTable, after, LogItem(log, now),
                                            fail),
                            !.ifLogged = IF fail
                                         THEN Effect(ProcessUpdateLogged(c, FALSE))
                                         ELSE <<>>])
    /\ UNCHANGED <<impl, now, ddns, zone, limits, inWindow, nreq, logins, issued,
                   sessions, web, r53>>

ClientSteps ==
    \/ LimitAdd \/ LimitReturn \/ ReadRecord \/ DeleteRecordList
    \/ DeleteRecordChange \/ Upsert \/ WriteRecord \/ WriteLog

\* ------------------------------------------------------------------------
\* GET /nic/update, impl "pkg": UpdateHandler.Update and ProcessUpdate, one
\* step for every call they make
\* ------------------------------------------------------------------------
\* GET /nic/update served by the package-level implementation; c.IP() is the
\* peer address
NicUpdate2 ==
    impl = "pkg" /\ Arrival(Queries, SourceIPs \cap (IPv4s \cup IPv6s), AuthHeaders)

\* the database.GetDDNSRecord call of ProcessUpdate
ReadRecord2 ==
    /\ impl = "pkg"
    /\ \E p \in Procs, fail \in BOOLEAN :
          LET c == procs[p]
              read == ProcessUpdateRead2(c, GetDDNSRecord2(ddns, c.hostname), fail)
              absent == ProcessUpdateRead2(c, NoRecord, FALSE)
          IN
          /\ c.op = "update" /\ c.pc = "get"
          /\ Failing(fail, FALSE)
          /\ Proceed(p, [read EXCEPT !.ifAbsent = IF read.hit = "disabled"
                                                  THEN Wire(absent) ELSE <<>>])
    /\ UNCHANGED <<impl, now, ddns, zone, limits, updateLog, inWindow, nreq,
                   logins, issued, logTable, sessions, web, r53>>

\* the database.IncrementRateLimit call of ProcessUpdate
Limit2 ==
    /\ impl = "pkg"
    /\ \E p \in Procs, fail \in BOOLEAN :
          LET c == procs[p]
              inc == IncrementRateLimit2(limits[c.hostname], now, RateLimitMax2,
                                         RateLimitWindowSeconds2, fail)
          IN
          /\ c.op = "update" /\ c.pc = "limit"
          /\ Failing(fail, FALSE)
          /\ limits' = [limits EXCEPT ![c.hostname] = inc.item]
          /\ inWindow' = IF inc.err THEN inWindow
                         ELSE [inWindow EXCEPT ![c.hostname] = @ + 1]
          /\ Proceed(p, ProcessUpdateLimited2(
                            [c EXCEPT !.nth = IF inc.err THEN 0
                                              ELSE inWindow[c.hostname] + 1],
                            inc.exceeded, inc.err))
    /\ UNCHANGED <<impl, now, ddns, zone, updateLog, nreq, logins, issued,
                   logTable, sessions, web, r53>>

\* the route53.UpdateRecord call of ProcessUpdate
Upsert2 ==
    /\ impl = "pkg"
    /\ \E p \in Procs, fail \in BOOLEAN :
          LET c == procs[p]
              ups == UpdateRecord2(zone, c.hostname, c.ip, c.record.TTL, fail)
          IN
          /\ c.op = "update" /\ c.pc = "upsert"
          /\ Failing(fail, FALSE)
          /\ zone' = ups.zone
          /\ Proceed(p, ProcessUpdateUpserted2(c, ups.type, ups.err))
    /\ UNCHANGED <<impl, now, ddns, limits, updateLog, inWindow, nreq, logins,
                   issued, logTable, sessions, web, r53>>

\* the database.UpdateDDNSRecord call of ProcessUpdate: the record as the
\* request read it, with the new address, is put whatever the table holds
WriteRecord2 ==
    /\ impl = "pkg"
    /\ \E p \in Procs, fail \in BOOLEAN :
          LET c == procs[p]
              upd == UpdateDDNSRecord2(ddns, c.written, now, fail)
          IN
          /\ c.op = "update" /\ c.pc = "put"
          /\ Failing(fail, FALSE)
          /\ ddns' = upd.store
          /\ Proceed(p, ProcessUpdateStored2(c, upd.err, now))
    /\ UNCHANGED <<impl, now, zone, limits, updateLog, inWindow, nreq, logins,
                   issued, logTable, sessions, web, r53>>

\* the database.CreateUpdateLog call of ProcessUpdate, after which the
\* request returns
WriteLog2 ==
    /\ impl = "pkg"
    /\ \E p \in Procs, fail \in BOOLEAN :
          LET c == procs[p]
              log == c.logs[1]
              after == CreateUpdateLog2(logTable, log, now, fail)
              done == ProcessUpdateLogged2(c, fail)
          IN
          /\ c.op = "update" /\ c.pc = "log"
          /\ Failing(fail, FALSE)
          /\ logTable' = after
          /\ updateLog' = IF fail THEN updateLog
                          ELSE [updateLog EXCEPT ![LogItem2(log, now).PK] = @ + 1]
          /\ Proceed(p, [done EXCEPT
                            !.logged = Took(logTable, after, LogItem2(log, now),
                                            fail),
                            !.ifLogged = IF fail
                                         THEN Effect(ProcessUpdateLogged2(c, FALSE))
                                         ELSE <<>>])
    /\ UNCHANGED <<impl, now, ddns, zone, limits, inWindow, nreq, logins, issued,
                   sessions, web, r53>>

PkgSteps == ReadRecord2 \/ Limit2 \/ Upsert2 \/ WriteRecord2 \/ WriteLog2

\* a minute passes
Tick ==
    /\ now < MaxTime
    /\ now' = now + 1
    /\ inWindow' = [h \in Hosts |-> 0]
    /\ UNCHANGED <<impl, ddns, zone, limits, updateLog, nreq, last, logins, nfault,
                   admin>>

Next == NicUpdate \/ NicUpdate2 \/ ClientSteps \/ PkgSteps

Spec == Init /\ [][Next]_vars

\* the requests the limiter is followed with: from one source address, the
\* address taken from it or given as myip
RateQueries == {q \in Queries : q[2] \in {"", "2001:db8::1"}}

RateUpdate == Arrival(RateQueries, {"2001:db8::1"}, AuthHeaders)

NextRate == RateUpdate \/ ClientSteps \/ PkgSteps \/ Tick

SpecRate == InitRate /\ [][NextRate]_vars

\* requests replayed within one minute, the counter two or one short of the
\* limit at the start
ReplayCounts == {MaxRequestsPerWindow - 2, MaxRequestsPerWindow - 1}

\* a record bound to an address requests come from
ReplayRecords == {DDNSRecord(h, "203.0.113.5", TRUE) : h \in Hosts}

InitReplay == InitWith(ReplayRecords, ReplayCounts)

SpecReplay == InitReplay /\ [][Next]_vars

\* ------------------------------------------------------------------------
\* Login operations, one step for every call to the store
\* ------------------------------------------------------------------------
InitLoginOf(impls) ==
    /\ impl \in impls
    /\ now = 0
    /\ ddns = NoRecords
    /\ zone = [h \in Hosts |-> NoDNS]
    /\ limits = NoItems
    /\ inWindow = [h \in Hosts |-> 0]
    /\ updateLog = [k \in LogKeys |-> 0]
    /\ nreq = 0
    /\ last = Idle
    /\ NoLogins(Units)
    /\ NoAdmin

InitLogin == InitLoginOf({"client"})

\* the failed-attempt counter and the end of the lockout an item stores
Counter(item) ==
    IF ~IsItem(item) THEN 0
    ELSE IF unit = "AuthService" THEN item.failed_count
    ELSE item.FailedAttempts

LockedUntilOf(item) ==
    IF ~IsItem(item) THEN 0
    ELSE IF unit = "AuthService" THEN item.locked_until
    ELSE IF IsZero(ParseRFC3339(item.LockedUntil)) THEN 0
    ELSE ParseRFC3339(item.LockedUntil)

\* The observation of one login operation: what it was, when it was made,
\* what it answered and what it means for the key (event): "failure" for a
\* failed authentication, "success" for a passed one, "none" for an operation
\* that is neither.
Written(s) == s.event = "failure" /\ s.recorded

FailsAfter(s) ==
    IF s.event = "success" THEN 0
    ELSE IF s.event = "failure" THEN s.fails + 1 ELSE s.fails

FailAtAfter(s) == IF s.event = "failure" THEN s.at ELSE s.failAt

StreakAfter(s) ==
    IF s.event = "success" THEN 0
    ELSE IF Written(s) THEN s.streak + 1 ELSE s.streak

StreakAtAfter(s) == IF Written(s) THEN s.at ELSE s.streakAt

\* the written failures since the last success or lockout, this one included
Run(s) ==
    IF s.event = "success" THEN 0
    ELSE IF Written(s) THEN s.sinceLock + 1 ELSE s.sinceLock

\* what the operation means for the key
EventOf(c) ==
    IF c.op = "Login"
    THEN IF c.result = "invalid" THEN "failure"
         ELSE IF c.passed THEN "success" ELSE "none"
    ELSE IF c.op = "RecordLoginAttempt"
    THEN IF c.passed THEN "success" ELSE "failure"
    ELSE "none"

\* the credential of the operation is the right one
Correct(c) ==
    IF c.op = "Login"
    THEN c.username = adminUsername /\ c.password = adminPassword
    ELSE IF c.op = "RecordLoginAttempt" THEN c.passed ELSE TRUE

\* the operation as it is once it has returned, next to those before it
ObserveLogin(c) ==
    [op |-> c.op, key |-> c.key, at |-> c.t, result |-> c.result,
     event |-> EventOf(c), compared |-> c.compared, correct |-> Correct(c),
     lookupErr |-> c.lookupErr, sessionErr |-> c.sessionErr,
     recorded |-> c.recorded, lockSet |-> c.lockSet,
     fails |-> FailsAfter(seen), failAt |-> FailAtAfter(seen),
     streak |-> StreakAfter(seen), streakAt |-> StreakAtAfter(seen),
     sinceLock |-> IF seen.lockSet THEN 0 ELSE Run(seen),
     serial |-> seen.serial /\ c.alone]

LoginOps == {"Login", "RecordLoginAttempt", "IsLoginLocked"}

\* the login operations in flight
LoginsInFlight == {p \in Procs : procs[p].op \in LoginOps}

\* what POST /login leaves behind: AuthHandler.PostLogin sets the session
\* cookie and redirects to /zones for a session, to /login otherwise
PostLogin(c, t) ==
    IF c.op # "Login" THEN web
    ELSE IF c.result = "session"
    THEN [web EXCEPT !.op = "login", !.at = t, !.cookie = c.sid, !.ran = FALSE,
                     !.redirect = "/zones", !.created = @ \cup {c.sid},
                     !.createdAt[c.sid] = t]
    ELSE [web EXCEPT !.op = "login", !.at = t, !.cookie = "", !.ran = FALSE,
                     !.redirect = "/login"]

\* the login operation in slot p has taken a step and is now c
LoginProceed(p, c) ==
    /\ procs' = [procs EXCEPT ![p] = IF c.pc = "done" THEN IdleProc ELSE c]
    /\ seen' = IF c.pc = "done" THEN ObserveLogin(c) ELSE seen
    /\ web' = IF c.pc = "done" THEN PostLogin(c, now) ELSE web

\* a login operation begins, as c.  The model follows the login operations
\* up to the first two that overlap, and its counters stay within MaxCount.
LoginArrived(c) ==
    LET alone == [c EXCEPT !.alone = (InFlight = {})] IN
    /\ Free # {}
    /\ seen.serial
    /\ Counter(attempts[c.key]) < MaxCount
    /\ FailsAfter(seen) + Cardinality(LoginsInFlight) < MaxCount
    /\ procs' = IF c.pc = "done" THEN Joined ELSE [Joined EXCEPT ![Slot] = alone]
    /\ seen' = IF c.pc = "done" THEN ObserveLogin(alone) ELSE seen
    /\ web' = IF c.pc = "done" THEN PostLogin(alone, now) ELSE web

\* the logins with the right credentials that are in flight
Passing ==
    {p \in LoginsInFlight : procs[p].op = "Login" /\ Correct(procs[p])}

\* POST /login: AuthService.Login up to and including the GetItem of
\* isIPLocked, then up to the GetItem of recordLoginAttempt.  A login with the
\* right credentials is made while an id is left for its session; counted
\* logins are among the MaxReq requests of a behaviour.
LoginBegin(counted) ==
    /\ impl = "client"
    /\ unit = "AuthService"
    /\ counted => nreq < MaxReq
    /\ \E clientIP \in ClientIPs, username \in Usernames, password \in Passwords,
          fail \in BOOLEAN :
          LET c == LoginCall("Login", clientIP, username, password, now) IN
          /\ Correct(c) =>
                Cardinality(web.created) + Cardinality(Passing)
                    < Cardinality(SessionIDs)
          /\ Failing(fail, FALSE)
          /\ LoginArrived(LoginLooked(c, isIPLocked(attempts[clientIP], now, fail)))
    /\ nreq' = IF counted THEN nreq + 1 ELSE nreq
    /\ UNCHANGED <<impl, now, ddns, zone, limits, updateLog, inWindow, last, unit,
                   attempts, issued, adm, logTable, sessions, r53>>

LoginLookup == LoginBegin(FALSE)

\* the GetItem of recordLoginAttempt
LoginReadItem ==
    /\ \E p \in Procs, fail \in BOOLEAN :
          LET c == procs[p] IN
          /\ c.op = "Login" /\ c.pc = "read"
          /\ Failing(fail, FALSE)
          /\ LoginProceed(p, LoginRead(c, attempts[c.key], fail))
    /\ UNCHANGED <<now, pipeline, unit, attempts, issued, adm, logTable, sessions,
                   r53>>

\* the PutItem of recordLoginAttempt: the item computed from the one read
LoginWriteItem ==
    /\ \E p \in Procs, fail \in BOOLEAN :
          LET c == procs[p] IN
          /\ c.op = "Login" /\ c.pc = "write"
          /\ Failing(fail, FALSE)
          /\ attempts' = IF fail THEN attempts
                         ELSE [attempts EXCEPT ![c.key] = c.item]
          /\ LoginProceed(p, LoginWritten(c, fail))
    /\ UNCHANGED <<now, pipeline, unit, issued, adm, logTable, sessions, r53>>

\* uuid.New(): an id no login was given before
NewSessionID(given) == CHOOSE id \in SessionIDs \ given : TRUE

\* the PutItem of SessionManager.CreateSession
LoginSession ==
    /\ \E p \in Procs, fail \in BOOLEAN :
          LET c == procs[p]
              sessionID == NewSessionID(web.created)
              new == CreateSession(sessions, sessionID, c.username, now, fail)
          IN
          /\ c.op = "Login" /\ c.pc = "session"
          /\ Failing(fail, FALSE)
          /\ sessions' = new.store
          /\ LoginProceed(p, LoginSessioned(c, sessionID, new.err))
    /\ UNCHANGED <<now, pipeline, unit, attempts, issued, adm, logTable, r53>>

\* Client.RecordLoginAttempt, called for an authentication that failed or
\* passed: up to and including its first UpdateItem
RecordAdd ==
    /\ unit = "Client"
    /\ \E ip \in ClientIPs, success \in BOOLEAN, fail \in BOOLEAN :
          LET c == [LoginCall("RecordLoginAttempt", ip, "", "", now) EXCEPT
                       !.passed = success]
              added == RecordLoginAttempt(attempts[ip], now, success)
          IN
          /\ Failing(fail, FALSE)
          /\ attempts' = IF fail THEN attempts ELSE [attempts EXCEPT ![ip] = added]
          /\ LoginArrived(
                IF fail THEN Return(c, "error")
                ELSE IF ~success /\ ThresholdReached(added)
                THEN [c EXCEPT !.pc = "lock", !.held = added]
                ELSE Return([c EXCEPT !.recorded = TRUE], "recorded"))
    /\ UNCHANGED <<now, pipeline, unit, issued, adm, logTable, sessions, r53>>

\* the second UpdateItem of Client.RecordLoginAttempt
RecordLock ==
    /\ \E p \in Procs, fail \in BOOLEAN :
          LET c == procs[p] IN
          /\ c.op = "RecordLoginAttempt" /\ c.pc = "lock"
          /\ Failing(fail, FALSE)
          /\ attempts' = IF fail THEN attempts
                         ELSE [attempts EXCEPT ![c.key] = SetLockedUntil(@, c.t)]
          /\ LoginProceed(p, IF fail THEN Return(c, "error")
                             ELSE Return([c EXCEPT !.recorded = TRUE,
                                                   !.lockSet = TRUE], "recorded"))
    /\ UNCHANGED <<now, pipeline, unit, issued, adm, logTable, sessions, r53>>

\* Client.IsLoginLocked, asked before an attempt is let through: one GetItem
AskLocked ==
    /\ unit = "Client"
    /\ \E ip \in ClientIPs, fail \in BOOLEAN :
          LET r == IsLoginLocked(attempts[ip], now, fail)
              c == LoginCall("IsLoginLocked", ip, "", "", now)
          IN
          /\ Failing(fail, FALSE)
          /\ LoginArrived(Return([c EXCEPT !.lookupErr = r.err],
                                 IF r.err THEN "error"
                                 ELSE IF r.locked THEN "locked" ELSE "open"))
    /\ UNCHANGED <<now, pipeline, unit, attempts, issued, adm, logTable, sessions,
                   r53>>

\* time passes
TickLogin ==
    /\ now + TickMinutes <= MaxClock
    /\ now' = now + TickMinutes
    /\ UNCHANGED <<pipeline, logins, nfault, admin>>

LoginSteps == LoginLookup \/ LoginReadItem \/ LoginWriteItem \/ LoginSession

NextLogin == LoginSteps \/ RecordAdd \/ RecordLock \/ AskLocked \/ TickLogin

SpecLogin == InitLogin /\ [][NextLogin]_vars

\* ------------------------------------------------------------------------
\* The management UI: login, protected requests, logout
\* ------------------------------------------------------------------------
InitSession == InitLoginOf(Impls) /\ unit = "AuthService"

\* a request to a protected route: RequireAuth up to and including the
\* GetItem of ValidateSession; an expired session is deleted next
WebProtected ==
    /\ impl = "client"
    /\ \E cookie \in Cookies, fail \in BOOLEAN :
          LET v == ValidateSession(IF cookie = "" THEN NoItem ELSE sessions[cookie],
                                   cookie, now, fail)
              res == RequireAuth(cookie, v)
              c == [op |-> "protected", pc |-> IF v.expired THEN "destroy" ELSE "done",
                    cookie |-> cookie, t |-> now, next |-> res.next,
                    redirect |-> res.redirect]
          IN
          /\ fail => cookie # ""
          /\ Failing(fail, FALSE)
          /\ Free # {}
          /\ procs' = IF v.expired THEN [Joined EXCEPT ![Slot] = c] ELSE Joined
          /\ web' = IF v.expired THEN web
                    ELSE [web EXCEPT !.op = "protected", !.at = now,
                                     !.cookie = cookie, !.ran = res.next,
                                     !.redirect = res.redirect]
    /\ UNCHANGED <<now, pipeline, logins, issued, adm, logTable, sessions, r53>>

\* the DeleteItem of DestroySession that ValidateSession makes for an expired
\* session, its error dropped; then the redirect
WebExpire ==
    /\ \E p \in Procs, fail \in BOOLEAN :
          LET c == procs[p] IN
          /\ c.op = "protected" /\ c.pc = "destroy"
          /\ Failing(fail, FALSE)
          /\ sessions' = DestroySession(sessions, c.cookie, fail).store
          /\ procs' = [procs EXCEPT ![p] = IdleProc]
          /\ web' = [web EXCEPT !.op = "protected", !.at = c.t,
                                !.cookie = c.cookie, !.ran = c.next,
                                !.redirect = c.redirect]
    /\ UNCHANGED <<now, pipeline, logins, issued, adm, logTable, r53>>

\* POST /logout: one DeleteItem
WebLogout ==
    /\ impl = "client"
    /\ \E cookie \in Cookies, fail \in BOOLEAN :
          LET res == PostLogout(sessions, cookie, fail) IN
          /\ fail => cookie # ""
          /\ Failing(fail, FALSE)
          /\ sessions' = res.store
          /\ web' = [web EXCEPT !.op = "logout", !.at = now, !.cookie = cookie,
                                !.ran = FALSE, !.redirect = res.redirect,
                                !.ended = @ \cup ({cookie} \cap web.created)]
    /\ UNCHANGED <<now, pipeline, logins, issued, adm, procs, logTable, r53>>

\* Client.CreateSession, called with a session for an id and a user
StoreSession ==
    /\ impl = "client"
    /\ nreq < MaxReq
    /\ \E sessionID \in SessionIDs, username \in Usernames, fail \in BOOLEAN :
          /\ Failing(fail, FALSE)
          /\ sessions' = ClientCreateSession(sessions,
                                             [SK |-> sessionID, Username |-> username],
                                             now, fail).store
    /\ nreq' = nreq + 1
    /\ UNCHANGED <<impl, now, ddns, zone, limits, updateLog, inWindow, last,
                   logins, issued, adm, procs, logTable, web, r53>>

\* Client.DeleteSession, called with a session id
RemoveSession ==
    /\ impl = "client"
    /\ nreq < MaxReq
    /\ \E sessionID \in SessionIDs, fail \in BOOLEAN :
          /\ Failing(fail, FALSE)
          /\ sessions' = ClientDeleteSession(sessions, sessionID, fail).store
    /\ nreq' = nreq + 1
    /\ UNCHANGED <<impl, now, ddns, zone, limits, updateLog, inWindow, last,
                   logins, issued, adm, procs, logTable, web, r53>>

\* what POST /login of the package leaves behind: AuthHandler.Login sets the
\* session cookie and redirects to /zones for a session, and renders the
\* login page otherwise
Login2Proceed(p, c) ==
    /\ procs' = [procs EXCEPT ![p] = IF c.pc = "done" THEN IdleProc ELSE c]
    /\ web' = IF c.pc # "done" THEN web
              ELSE IF c.result = "session"
              THEN [web EXCEPT !.op = "login", !.at = now, !.cookie = c.sid,
                               !.ran = FALSE, !.redirect = "/zones",
                               !.created = @ \cup {c.sid},
                               !.createdAt[c.sid] = now]
              ELSE [web EXCEPT !.op = "login", !.at = now, !.cookie = "",
                               !.ran = FALSE, !.redirect = ""]

\* the logins of the package with the right credentials that are in flight
Passing2 == {p \in Procs : procs[p].op = "Login2" /\ procs[p].passed}

\* POST /login of the package: AuthService.Login up to and including
\* IsAccountLocked
WebLogin2 ==
    /\ impl = "pkg"
    /\ nreq < MaxReq
    /\ Free # {}
    /\ \E username \in Usernames, password \in Passwords, fail \in BOOLEAN :
          LET c == LoginCall2(username, password) IN
          /\ c.passed =>
                Cardinality(web.created) + Cardinality(Passing2)
                    < Cardinality(SessionIDs)
          /\ Failing(fail, FALSE)
          /\ Login2Proceed(Slot, Login2Looked(c, IsAccountLocked(attempts[username],
                                                                 now, fail)))
    /\ nreq' = nreq + 1
    /\ UNCHANGED <<impl, now, ddns, zone, limits, updateLog, inWindow, last,
                   logins, issued, adm, logTable, sessions, r53>>

\* RecordLoginAttempt of the login, for the credentials it was given
Login2Record ==
    /\ \E p \in Procs, fail \in BOOLEAN :
          LET c == procs[p]
              r == RecordLoginAttempt2(attempts[c.username], now, c.passed, fail)
          IN
          /\ c.op = "Login2" /\ c.pc = "record"
          /\ Failing(fail, FALSE)
          /\ attempts' = [attempts EXCEPT ![c.username] = r.item]
          /\ Login2Proceed(p, Login2Recorded(c, r))
    /\ UNCHANGED <<now, pipeline, unit, seen, issued, adm, logTable, sessions,
                   r53>>

\* the session of the login: database.CreateSession under a new id
Login2Session ==
    /\ \E p \in Procs, fail \in BOOLEAN :
          LET c == procs[p]
              sessionID == NewSessionID(web.created)
              new == CreateSession2(sessions, [SessionID |-> sessionID,
                                               Username |-> c.username],
                                    now, fail)
          IN
          /\ c.op = "Login2" /\ c.pc = "session"
          /\ Failing(fail, FALSE)
          /\ sessions' = new.store
          /\ Login2Proceed(p, Login2Sessioned(c, sessionID, new.err))
    /\ UNCHANGED <<now, pipeline, logins, issued, adm, logTable, r53>>

\* a request to a protected route of the package: RequireAuth with the
\* GetItem of database.GetSession
WebProtected2 ==
    /\ impl = "pkg"
    /\ \E cookie \in Cookies, fail \in BOOLEAN :
          LET valid == /\ cookie # ""
                       /\ ValidSession2(GetSession2(sessions, cookie, now, fail))
              res == RequireAuth2(cookie, valid)
          IN
          /\ fail => cookie # ""
          /\ Failing(fail, FALSE)
          /\ web' = [web EXCEPT !.op = "protected", !.at = now,
                                !.cookie = cookie, !.ran = res.next,
                                !.redirect = res.redirect]
    /\ UNCHANGED <<now, pipeline, logins, issued, adm, procs, logTable, sessions,
                   r53>>

\* POST /logout of the package: database.DeleteSession for the cookie, its
\* error dropped, then the redirect to /login
WebLogout2 ==
    /\ impl = "pkg"
    /\ \E cookie \in Cookies, fail \in BOOLEAN :
          /\ fail => cookie # ""
          /\ Failing(fail, FALSE)
          /\ sessions' = IF cookie = "" THEN sessions
                         ELSE DeleteSession2(sessions, cookie, fail).store
          /\ web' = [web EXCEPT !.op = "logout", !.at = now, !.cookie = cookie,
                                !.ran = FALSE, !.redirect = "/login",
                                !.ended = @ \cup ({cookie} \cap web.created)]
    /\ UNCHANGED <<now, pipeline, logins, issued, adm, procs, logTable, r53>>

\* half a session lifetime passes
TickSession ==
    /\ now < MaxHalfDays * ((SessionTTLHours * 60) \div 2)
    /\ now' = now + (SessionTTLHours * 60) \div 2
    /\ UNCHANGED <<pipeline, logins, nfault, admin>>

\* POST /login of the management UI
WebLogin == LoginBegin(TRUE)

NextSession ==
    \/ WebLogin \/ LoginReadItem \/ LoginWriteItem \/ LoginSession
    \/ WebProtected \/ WebExpire \/ WebLogout \/ StoreSession \/ RemoveSession
    \/ WebLogin2 \/ Login2Record \/ Login2Session
    \/ WebProtected2 \/ WebLogout2 \/ TickSession

SpecSession == InitSession /\ [][NextSession]_vars

\* ------------------------------------------------------------------------
\* Administration next to update requests in flight
\* ------------------------------------------------------------------------
InitAdmin == InitWith(InitRecords, {0}) /\ impl = "client"

\* the queries that name a provisioned hostname and leave out myip
HostQueries == {<<h, "">> : h \in Hosts}

\* an update request for a provisioned hostname arrives from a well-formed
\* address with some token
BeginUpdate ==
    Arrival(HostQueries, SourceIPs \cap (IPv4s \cup IPv6s),
            {BasicAuth(t) : t \in AllTokens})

Used(tokens) == {tokens[i] : i \in 1..Len(tokens)}

\* the RegenerateToken calls in flight for the hostname
Regenerating(h) ==
    {p \in Procs : procs[p].op = "RegenerateToken" /\ procs[p].hostname = h}

\* an administrative operation, one of the MaxReq requests and operations
\* of a behaviour, begins with the GetItem of DDNSService.GetDDNSRecord
AdminBegin(c) ==
    /\ impl = "client"
    /\ nreq < MaxReq
    /\ \E fail \in BOOLEAN :
          /\ Failing(fail, FALSE)
          /\ Arrived(ServiceRead(c, ServiceGetDDNSRecord(ddns, c.hostname, fail)))
    /\ nreq' = nreq + 1
    /\ UNCHANGED <<impl, now, ddns, zone, limits, updateLog, inWindow, logins,
                   issued, logTable, sessions, web, r53>>

\* RegenerateToken reads the record
RegenerateBegin ==
    \E hostname \in Hosts :
        /\ Len(issued[hostname]) + Cardinality(Regenerating(hostname))
              < Cardinality(NewTokens)
        /\ AdminBegin(AdminCall("RegenerateToken", hostname))

\* RegenerateToken generates the token, writes the record it read with the new
\* hash (Client.UpdateDDNSRecord) and returns the token
RegeneratePut ==
    /\ \E p \in Procs, fail \in BOOLEAN :
          LET c == procs[p] IN
          /\ c.op = "RegenerateToken" /\ c.pc = "put"
          /\ \E token \in NewTokens \ Used(issued[c.hostname]) :
                LET upd == UpdateDDNSRecord(ddns, RegenerateToken(c.record, token),
                                            now, fail)
                IN
                /\ Failing(fail, FALSE)
                /\ ddns' = upd.store
                /\ issued' = IF upd.err THEN issued
                              ELSE [issued EXCEPT ![c.hostname] = Append(@, token)]
                /\ Proceed(p, ServiceWritten(c, token, upd.err))
    /\ UNCHANGED <<impl, now, zone, limits, updateLog, inWindow, nreq, logins,
                   logTable, sessions, web, r53>>

\* the administrator sets the TTL and the enabled flag of a record:
\* UpdateDDNSRecord reads the record
AdminUpdateBegin ==
    \E hostname \in Hosts, ttl \in TTLs, enabled \in BOOLEAN :
        AdminBegin([AdminCall("UpdateDDNSRecord", hostname) EXCEPT
                       !.ttl = ttl, !.enabled = enabled])

\* UpdateDDNSRecord writes the record it read with the TTL and the flag
AdminUpdatePut ==
    /\ \E p \in Procs, fail \in BOOLEAN :
          LET c == procs[p]
              upd == UpdateDDNSRecord(ddns,
                         ServiceUpdateDDNSRecord(c.record, c.ttl, c.enabled),
                         now, fail)
          IN
          /\ c.op = "UpdateDDNSRecord" /\ c.pc = "put"
          /\ Failing(fail, FALSE)
          /\ ddns' = upd.store
          /\ Proceed(p, ServiceWritten(c, "", upd.err))
    /\ UNCHANGED <<impl, now, zone, limits, updateLog, inWindow, nreq, logins,
                   issued, logTable, sessions, web, r53>>

\* DELETE of a record by the administrator: DeleteDDNSRecord reads the record
AdminDeleteBegin ==
    \E hostname \in Hosts : AdminBegin(AdminCall("DeleteDDNSRecord", hostname))

\* DeleteDDNSRecord removes the record from the store (Client.DeleteDDNSRecord)
AdminDeleteRemove ==
    /\ \E p \in Procs, fail \in BOOLEAN :
          LET c == procs[p]
              del == DeleteDDNSRecord(ddns, c.hostname, fail)
          IN
          /\ c.op = "DeleteDDNSRecord" /\ c.pc = "remove"
          /\ Failing(fail, FALSE)
          /\ ddns' = del.store
          /\ Proceed(p, ServiceDeleteRemoved(c, del.err))
    /\ UNCHANGED <<impl, now, zone, limits, updateLog, inWindow, nreq, logins,
                   issued, logTable, sessions, web, r53>>

NextAdmin ==
    \/ BeginUpdate \/ ClientSteps
    \/ RegenerateBegin \/ RegeneratePut
    \/ AdminDeleteBegin \/ AdminDeleteRemove

SpecAdmin == InitAdmin /\ [][NextAdmin]_vars

\* update requests racing UpdateDDNSRecord
NextToggle == BeginUpdate \/ ClientSteps \/ AdminUpdateBegin \/ AdminUpdatePut

SpecToggle == InitAdmin /\ [][NextToggle]_vars

\* ------------------------------------------------------------------------
\* Concurrent update requests
\* ------------------------------------------------------------------------
InitRace == InitWith(InitRecords, {0}) /\ impl = "client"

\* an authenticated update request for a provisioned hostname arrives from a
\* well-formed address
RaceArrive == Arrival(HostQueries, IPv4s \cup IPv6s, {BasicAuth(GoodToken)})

NextRace == RaceArrive \/ ClientSteps

SpecRace == InitRace /\ [][NextRace]_vars

\* ------------------------------------------------------------------------
\* Deletion next to an update in flight, in both implementations
\* ------------------------------------------------------------------------
InitGone == InitWith(InitRecords, {0})

\* database.DeleteDDNSRecord of the package: the DeleteItem a deletion of the
\* record ends with
AdminDelete2 ==
    /\ impl = "pkg"
    /\ nreq < MaxReq
    /\ \E hostname \in Hosts, fail \in BOOLEAN :
          LET del == DeleteDDNSRecord2(ddns, hostname, fail)
              c == [AdminCall("DeleteDDNSRecord", hostname) EXCEPT
                       !.existed = IsRecord(GetDDNSRecord2(ddns, hostname)),
                       !.storeErr = del.err]
          IN
          /\ Failing(fail, FALSE)
          /\ ddns' = del.store
          /\ Arrived(Returned(c, del.err))
    /\ nreq' = nreq + 1
    /\ UNCHANGED <<impl, now, zone, limits, updateLog, inWindow, logins, issued,
                   logTable, sessions, web, r53>>

\* route53.DeleteRecord of the package, called with a hostname, an address
\* and a TTL
RemoveRecord2 ==
    /\ impl = "pkg"
    /\ \E hostname \in Hosts, ip \in IPv4s \cup IPv6s, ttl \in TTLs,
          fail \in BOOLEAN :
          /\ Failing(fail, FALSE)
          /\ zone' = DeleteRecord2(zone, hostname, ip, ttl, fail).zone
    /\ UNCHANGED <<impl, now, ddns, limits, updateLog, inWindow, nreq, last,
                   logins, issued, adm, procs, logTable, sessions, web, r53>>

NextGone ==
    \/ BeginUpdate \/ ClientSteps \/ PkgSteps
    \/ AdminDeleteBegin \/ AdminDeleteRemove \/ AdminDelete2 \/ RemoveRecord2

SpecGone == InitGone /\ [][NextGone]_vars

\* ------------------------------------------------------------------------
\* The event log: update requests that end in a log write, and the history
\* read from the table
\* ------------------------------------------------------------------------
InitLog == InitWith(InitRecords, {0})

\* an update for the hostname is logged: logUpdate (client), the end of
\* ProcessUpdate (package).  t, in tenths of a second, is the clock as the
\* request read it before its PutItem was sent: the events of requests in
\* flight together are stored in any order of their stamps
LogUpdate ==
    /\ nreq < MaxReq
    /\ \E hostname \in LogHosts, previousIP \in {"", "1.2.3.4"},
          newIP \in {"203.0.113.5", "2001:db8::1"}, t \in LogTimes,
          fail \in BOOLEAN :
          LET event == logUpdate(hostname, previousIP, newIP, newIP, "ddclient",
                                 IF impl = "client" THEN "good" ELSE "success", t)
              item == IF impl = "client" THEN LogItem(event, now)
                      ELSE LogItem2(event, now)
              after == IF impl = "client"
                       THEN CreateUpdateLog(logTable, event, now, fail)
                       ELSE CreateUpdateLog2(logTable, event, now, fail)
          IN
          /\ Failing(fail, FALSE)
          /\ logTable' = after
          /\ updateLog' = IF fail THEN updateLog
                          ELSE [updateLog EXCEPT ![item.PK] = @ + 1]
          /\ last' = [Idle EXCEPT !.op = "logUpdate", !.pc = "done",
                                  !.hostname = hostname, !.ip = newIP,
                                  !.ran = TRUE, !.logs = <<event>>,
                                  !.logErr = fail,
                                  !.logged = Took(logTable, after, item, fail)]
    /\ nreq' = nreq + 1
    /\ UNCHANGED <<impl, now, ddns, zone, limits, inWindow, logins, issued, adm,
                   procs, sessions, web, r53>>

\* DDNSService.GetUpdateHistory up to and including its GetDDNSRecord
HistoryBegin ==
    /\ impl = "client"
    /\ \E hostname \in LogHosts, limit \in Limits, fail \in BOOLEAN :
          LET c == [AdminCall("GetUpdateHistory", hostname) EXCEPT !.limit = limit]
              got == GetUpdateHistory(GetDDNSRecord(ddns, hostname), fail)
          IN
          /\ Failing(fail, FALSE)
          /\ Arrived(IF got.query
                     THEN [c EXCEPT !.pc = "query", !.existed = TRUE]
                     ELSE Returned(c, TRUE))
    /\ UNCHANGED <<impl, now, ddns, zone, limits, updateLog, inWindow, nreq,
                   logins, issued, logTable, sessions, web, r53>>

\* the Query of Client.GetUpdateLogs, with whose answer GetUpdateHistory
\* returns
HistoryQuery ==
    /\ \E p \in Procs, fail \in BOOLEAN :
          LET c == procs[p] IN
          /\ c.op = "GetUpdateHistory" /\ c.pc = "query"
          /\ Failing(fail, FALSE)
          /\ Proceed(p, IF fail THEN Returned([c EXCEPT !.storeErr = TRUE], TRUE)
                        ELSE Returned([c EXCEPT !.logs =
                                 GetUpdateLogs(logTable, c.hostname, c.limit)],
                                      FALSE))
    /\ UNCHANGED <<impl, now, ddns, zone, limits, updateLog, inWindow, nreq,
                   logins, issued, logTable, sessions, web, r53>>

NextLog == LogUpdate \/ HistoryBegin \/ HistoryQuery

SpecLog == InitLog /\ [][NextLog]_vars

\* ------------------------------------------------------------------------
\* Concurrent limiter calls: Client.IncrementRateLimit as the steps other
\* calls can come between
\* ------------------------------------------------------------------------
InitCount == InitWith(RateRecords, {0}) /\ impl = "client"

\* a caller enters IncrementRateLimit and reads the clock
IncrementBegin ==
    /\ \E p \in Procs, key \in Hosts :
          /\ procs[p] = IdleProc
          /\ procs' = [procs EXCEPT ![p] =
                          [op |-> "IncrementRateLimit", stage |-> "called",
                           key |-> key, t |-> now, entry |-> NoItem,
                           count |-> 0, err |-> FALSE, resets |-> 0]]
    /\ UNCHANGED <<impl, now, nfault, pipeline, logins, issued, adm,
                   logTable, sessions, web, r53>>

\* its first UpdateItem
IncrementAdd ==
    /\ \E p \in Procs, fail \in BOOLEAN :
          LET c == procs[p]
              entry == UpdateItemAdd(limits[c.key], c.t)
          IN
          /\ c.op = "IncrementRateLimit" /\ c.stage = "called"
          /\ Failing(fail, FALSE)
          /\ IF fail
             THEN /\ limits' = limits
                  /\ procs' = [procs EXCEPT ![p] = [c EXCEPT !.stage = "done",
                                                             !.err = TRUE]]
             ELSE /\ limits' = [limits EXCEPT ![c.key] = entry]
                  /\ procs' = [procs EXCEPT ![p] = [c EXCEPT !.stage = "added",
                                                             !.entry = entry]]
    /\ UNCHANGED <<impl, now, ddns, zone, updateLog, inWindow, nreq, last, logins,
                   issued, adm, logTable, sessions, web, r53>>

\* the comparison of the returned window start, the second UpdateItem when
\* they differ, and the return of the count
IncrementReturn ==
    /\ \E p \in Procs :
          LET c == procs[p]
              reset == UpdateItemReset(limits[c.key], c.t)
          IN
          /\ c.op = "IncrementRateLimit" /\ c.stage = "added"
          /\ IF WindowChanged(c.entry, c.t)
             THEN /\ limits' = [limits EXCEPT ![c.key] = reset]
                  /\ procs' = [procs EXCEPT ![p] = [c EXCEPT !.stage = "done",
                                                             !.entry = reset,
                                                             !.count = reset.Count,
                                                             !.resets = 1]]
             ELSE /\ limits' = limits
                  /\ procs' = [procs EXCEPT ![p] = [c EXCEPT !.stage = "done",
                                                             !.count = c.entry.Count]]
    /\ UNCHANGED <<impl, now, nfault, ddns, zone, updateLog, inWindow, nreq, last,
                   logins, issued, adm, logTable, sessions, web, r53>>

NextCount == IncrementBegin \/ IncrementAdd \/ IncrementReturn \/ Tick

SpecCount == InitCount /\ [][NextCount]_vars

\* ------------------------------------------------------------------------
\* ------------------------------------------------------------------------
\* Record creation: concurrent CreateDDNSRecord calls and UpdateDDNSRecord
\* ------------------------------------------------------------------------
InitCreate == InitWith(InitRecords, {0})

\* a caller starts CreateDDNSRecord: the check for an existing record
BeginCreate ==
    /\ impl = "client"
    /\ \E p \in Procs, hostname \in Hosts, ttl \in TTLs,
          fail \in BOOLEAN :
          LET chk == CheckExisting(ddns, hostname, fail) IN
          /\ procs[p] = IdleProc
          /\ Failing(fail, FALSE)
          /\ procs' = [procs EXCEPT ![p] =
                          [op |-> "CreateDDNSRecord",
                           stage |-> IF chk.err = "" THEN "checked" ELSE "done",
                           hostname |-> hostname, ttl |-> ttl, err |-> chk.err,
                           found |-> chk.found, fault |-> fail,
                           token |-> ""]]
    /\ UNCHANGED <<impl, now, pipeline, logins, issued, adm, logTable,
                   sessions, web, r53>>

\* the caller generates its token and writes the record
FinishCreate ==
    /\ \E p \in Procs, fail \in BOOLEAN :
          LET c == procs[p]
              res == ServiceCreateDDNSRecord(ddns, c.hostname, c.ttl,
                                             generateToken(p), now, fail)
          IN
          /\ c.op = "CreateDDNSRecord" /\ c.stage = "checked"
          /\ Failing(fail, FALSE)
          /\ ddns' = res.store
          /\ procs' = [procs EXCEPT ![p] =
                          [c EXCEPT !.stage = "done", !.err = res.err,
                                    !.fault = fail, !.token = res.token]]
    /\ UNCHANGED <<impl, now, zone, limits, updateLog, inWindow, nreq, last,
                   logins, issued, adm, logTable, sessions, web, r53>>

\* database.CreateDDNSRecord of the package, called with a record for the
\* hostname: its TTL, its address, its flag, and the hash of a token of the
\* caller's
CreateRecord2 ==
    /\ impl = "pkg"
    /\ \E p \in Procs, hostname \in Hosts, ttl \in TTLs, ip \in {"", "1.2.3.4"},
          enabled \in BOOLEAN, fail \in BOOLEAN :
          LET token == generateToken(p)
              record == [NewRecord(hostname, ttl, token, now) EXCEPT
                            !.CurrentIP = ip, !.Enabled = enabled]
              put == CreateDDNSRecord2(ddns, record, now, fail)
          IN
          /\ procs[p] = IdleProc
          /\ Failing(fail, FALSE)
          /\ ddns' = put.store
          /\ procs' = [procs EXCEPT ![p] =
                          [op |-> "CreateDDNSRecord", stage |-> "done",
                           hostname |-> hostname, ttl |-> ttl,
                           err |-> IF put.err THEN "error" ELSE "",
                           found |-> FALSE, fault |-> fail,
                           token |-> IF put.err THEN "" ELSE token]]
    /\ UNCHANGED <<impl, now, zone, limits, updateLog, inWindow, nreq, last,
                   logins, issued, adm, logTable, sessions, web, r53>>

NextCreate ==
    \/ BeginCreate \/ FinishCreate \/ CreateRecord2
    \/ AdminUpdateBegin \/ AdminUpdatePut

SpecCreate == InitCreate /\ [][NextCreate]_vars

\* ------------------------------------------------------------------------
\* ------------------------------------------------------------------------
\* Concurrent recording of failed logins
\* ------------------------------------------------------------------------
\* a caller starts recording a failed login and reads the clock
AttemptBegin ==
    /\ nreq + Cardinality({p \in Procs : procs[p] # IdleProc}) < MaxCount
    /\ \E p \in Procs, key \in ClientIPs :
          /\ procs[p] = IdleProc
          /\ procs' = [procs EXCEPT ![p] =
                          [op |-> "recordLoginAttempt", stage |-> "called",
                           key |-> key, t |-> now, held |-> NoItem]]
    /\ UNCHANGED <<impl, now, nfault, pipeline, logins, issued, adm,
                   logTable, sessions, web, r53>>

\* its first store call: AuthService.recordLoginAttempt reads the item
\* (GetItem); Client.RecordLoginAttempt adds one to FailedAttempts (UpdateItem,
\* ReturnValues ALL_NEW).  When the call fails the error is returned and
\* nothing is stored.
AttemptCall ==
    /\ \E p \in Procs, fail \in BOOLEAN :
          LET c == procs[p]
              added == RecordLoginAttempt(attempts[c.key], c.t, FALSE)
          IN
          /\ c.op = "recordLoginAttempt" /\ c.stage = "called"
          /\ Failing(fail, FALSE)
          /\ IF fail
             THEN /\ attempts' = attempts
                  /\ procs' = [procs EXCEPT ![p] = IdleProc]
             ELSE IF unit = "AuthService"
             THEN /\ attempts' = attempts
                  /\ procs' = [procs EXCEPT ![p] =
                                  [c EXCEPT !.stage = "answered",
                                            !.held = attempts[c.key]]]
             ELSE /\ attempts' = [attempts EXCEPT ![c.key] = added]
                  /\ procs' = [procs EXCEPT ![p] =
                                  [c EXCEPT !.stage = "answered", !.held = added]]
    /\ UNCHANGED <<impl, now, pipeline, unit, seen, issued, adm,
                   logTable, sessions, web, r53>>

\* its last store call: AuthService.recordLoginAttempt writes the item it
\* computed from the one it read (PutItem); Client.RecordLoginAttempt sets
\* LockedUntil when the count returned to it reached the threshold, and makes
\* no call otherwise.  When the call fails the error is returned and the
\* item stays as it is: for AuthService the attempt is not recorded, for the
\* Client it is counted and no lockout is set.
AttemptReturn ==
    /\ \E p \in Procs, fail \in BOOLEAN :
          LET c == procs[p]
              put == recordLoginAttempt(c.held, c.key, c.t, FALSE, FALSE).item
          IN
          /\ c.op = "recordLoginAttempt" /\ c.stage = "answered"
          /\ fail => IF unit = "AuthService" THEN TRUE ELSE ThresholdReached(c.held)
          /\ Failing(fail, FALSE)
          /\ attempts' =
                IF fail THEN attempts
                ELSE IF unit = "AuthService" THEN [attempts EXCEPT ![c.key] = put]
                ELSE IF ThresholdReached(c.held)
                THEN [attempts EXCEPT ![c.key] = SetLockedUntil(@, c.t)]
                ELSE attempts
          /\ procs' = [procs EXCEPT ![p] = IdleProc]
          /\ nreq' = IF fail /\ unit = "AuthService" THEN nreq ELSE nreq + 1
    /\ UNCHANGED <<impl, now, ddns, zone, limits, updateLog, inWindow, last,
                   unit, seen, issued, adm, logTable, sessions, web, r53>>

NextAttempt == AttemptBegin \/ AttemptCall \/ AttemptReturn

SpecAttempt == InitLogin /\ [][NextAttempt]_vars

\* ------------------------------------------------------------------------
\* ------------------------------------------------------------------------
\* The zone-list cache over time
\* ------------------------------------------------------------------------
InitZones == InitWith({NoRecord}, {0})

\* the call c has returned
ZoneReturned(c, cache) ==
    [cache EXCEPT !.op = c.op, !.from = c.from, !.zones = c.zones,
                  !.first = c.first, !.dropped = c.dropped]

\* a call begins: with the lookup of getCachedZones in the package, which
\* holds the lock of the cache, and with the Load of getFromCache in
\* Route53Client
ZoneBegin(call) ==
    LET c == IF impl = "pkg" THEN Looked(call, CachedZones(r53.zoneCache, now))
             ELSE getFromCache(call, r53.entry)
        begun == [r53 EXCEPT !.fresh = FALSE]
    IN
    /\ nreq < MaxCalls
    /\ Free # {}
    /\ procs' = IF c.pc = "done" THEN procs ELSE [procs EXCEPT ![Slot] = c]
    /\ r53' = IF c.pc = "done" THEN ZoneReturned(c, begun) ELSE begun
    /\ nreq' = nreq + 1
    /\ UNCHANGED <<impl, now, nfault, ddns, zone, limits, updateLog, inWindow,
                   last, logins, issued, adm, logTable, sessions, web>>

\* ListZones (package) or ListHostedZones (Route53Client) is called
ZoneListBegin == ZoneBegin(ZoneCall("list", Nil, r53.fresh))

\* getFromCache of Route53Client tests the entry it loaded against the clock
ZoneValid ==
    /\ \E p \in Procs :
          LET c == Validated(procs[p], now) IN
          /\ procs[p].op \in {"list", "get"} /\ procs[p].pc = "valid"
          /\ procs' = [procs EXCEPT ![p] = IF c.pc = "done" THEN IdleProc ELSE c]
          /\ r53' = IF c.pc = "done" THEN ZoneReturned(c, r53) ELSE r53
    /\ UNCHANGED <<now, nfault, pipeline, logins, issued, adm, logTable,
                   sessions, web>>

\* getFromCache of Route53Client deletes the key of the entry it found no
\* longer valid
ZoneDelete ==
    /\ \E p \in Procs :
          /\ procs[p].op \in {"list", "get"} /\ procs[p].pc = "delete"
          /\ procs' = [procs EXCEPT ![p] = Deleted(procs[p], r53.entry, now)]
          /\ r53' = [r53 EXCEPT !.entry = NoItem]
    /\ UNCHANGED <<now, nfault, pipeline, logins, issued, adm, logTable,
                   sessions, web>>

\* the provider answers ListHostedZones, or the call fails and the error is
\* returned
ZoneListFetch ==
    /\ \E p \in Procs, fail \in BOOLEAN :
          LET c == ListFetched(procs[p], r53.provider, now, fail) IN
          /\ procs[p].op = "list" /\ procs[p].pc = "fetch"
          /\ Failing(fail, FALSE)
          /\ procs' = [procs EXCEPT ![p] = IF c.pc = "done" THEN IdleProc ELSE c]
          /\ r53' = IF c.pc = "done" THEN ZoneReturned(c, r53) ELSE r53
    /\ UNCHANGED <<now, pipeline, logins, issued, adm, logTable, sessions, web>>

\* setCachedZones (package) or setInCache (Route53Client) with the listing the
\* provider answered, stamped with the time of the store; then the return
ZoneListStore ==
    /\ \E p \in Procs :
          LET c == procs[p]
              stored == [r53 EXCEPT
                            !.zoneCache = IF impl = "pkg"
                                          THEN setCachedZones(c.zones, now) ELSE @,
                            !.entry = IF impl = "client"
                                      THEN setInCache(c.zones, now) ELSE @,
                            !.stored = @ \cup {[zones |-> c.zones, at |-> c.fetchedAt]}]
          IN
          /\ c.op = "list" /\ c.pc = "store"
          /\ procs' = [procs EXCEPT ![p] = IdleProc]
          /\ r53' = ZoneReturned(ListStored(c), stored)
    /\ UNCHANGED <<now, nfault, pipeline, logins, issued, adm, logTable,
                   sessions, web>>

\* GetZone (package) or GetHostedZone (Route53Client) is called
ZoneGetBegin ==
    \E zoneID \in ZoneIDs : ZoneBegin(ZoneCall("get", <<zoneID>>, r53.fresh))

\* the provider answers GetHostedZone, or the call fails
ZoneGetFetch ==
    /\ \E p \in Procs, fail \in BOOLEAN :
          LET c == GetFetched(procs[p], r53.provider, now, fail) IN
          /\ procs[p].op = "get" /\ procs[p].pc = "fetch"
          /\ Failing(fail, FALSE)
          /\ procs' = [procs EXCEPT ![p] = IdleProc]
          /\ r53' = ZoneReturned(c, r53)
    /\ UNCHANGED <<now, pipeline, logins, issued, adm, logTable, sessions, web>>

\* InvalidateCache of the package, at any moment, also while a call is
\* between its lookup and its store.  invalidateCache and invalidateAllCache
\* of Route53Client are unexported and called nowhere: no step runs them.
ZoneInvalidate ==
    /\ impl = "pkg"
    /\ r53' = [r53 EXCEPT
                  !.zoneCache = InvalidateCache(@),
                  !.stored = IF InFlight = {} THEN {} ELSE @,
                  !.fresh = (InFlight = {})]
    /\ UNCHANGED <<now, nfault, pipeline, logins, issued, adm, procs,
                   logTable, sessions, web>>

\* the hosted zones at the provider change
ZoneChange ==
    /\ \E listing \in Listings \ {r53.provider} :
          r53' = [r53 EXCEPT !.provider = listing]
    /\ UNCHANGED <<now, nfault, pipeline, logins, issued, adm, procs,
                   logTable, sessions, web>>

\* the clock counts minutes and a call takes less than one: a minute passes
\* between the calls, not inside one
TickZones ==
    /\ now < MaxMinutes
    /\ InFlight = {}
    /\ now' = now + 1
    /\ UNCHANGED <<nfault, pipeline, logins, admin>>

ZoneSteps ==
    \/ ZoneListBegin \/ ZoneValid \/ ZoneDelete \/ ZoneListFetch \/ ZoneListStore
    \/ ZoneGetBegin \/ ZoneGetFetch

NextZones == ZoneSteps \/ ZoneInvalidate \/ ZoneChange \/ TickZones

SpecZones == InitZones /\ [][NextZones]_vars

\* ------------------------------------------------------------------------
\* Requests to the router
\* ------------------------------------------------------------------------
InitForms == InitWith({NoRecord}, {0})

\* the stack of the implementation that serves the requests
Stack == IF impl = "client" THEN SetupRoutes ELSE SetupRoutes2

\* one request: its method and path, whether its session cookie validates,
\* its csrf_token cookie and the tokens it submits; the router keeps no
\* state, so a behaviour is one request
FormRequest ==
    /\ web = IdleWeb
    /\ \E method \in Methods, path \in Paths, session \in BOOLEAN,
          cookie \in CSRFTokens, header \in CSRFTokens, form \in CSRFTokens,
          randFails \in BOOLEAN :
          LET req == [method |-> method, path |-> path, session |-> session,
                      cookie |-> cookie, header |-> header, form |-> form,
                      randFails |-> randFails]
              res == Routed(Stack, 1, req)
          IN /\ randFails => impl = "pkg" /\ cookie = ""
             /\ Failing(randFails, FALSE)
             /\ web' = [op |-> "request", method |-> method, path |-> path,
                        session |-> session, cookie |-> cookie,
                        submitted |-> {header, form} \ {""},
                        status |-> res.status, by |-> res.by,
                        ran |-> res.by = "handler", randFails |-> randFails]
    /\ UNCHANGED <<now, pipeline, logins, issued, adm, procs, logTable,
                   sessions, r53>>

NextForms == FormRequest

SpecForms == InitForms /\ [][NextForms]_vars

\* ------------------------------------------------------------------------
\* Properties of the update pipeline
\* ------------------------------------------------------------------------
\* Properties of the update pipeline
\* ------------------------------------------------------------------------
Upserts(calls) == Cardinality({i \in 1..Len(calls) : calls[i].op = "UPSERT"})

Deletes(calls) == Cardinality({i \in 1..Len(calls) : calls[i].op = "DELETE"})

\* the limiter stopped the request: it rejected it, or its error became the
\* answer
LimiterStopped ==
    \/ last.limited
    \/ last.limiterErr /\ last.endedBy = "limiter"

\* C1: of two consecutive authorized requests for the same hostname carrying
\* the same valid address, the one that follows a good is never good again
\* and issues no further upsert, so that one DNS upsert is issued in total.
C1_NeverTwoGoods ==
    last.afterGood =>
        /\ Code(last.body) # ResponseGood
        /\ Upserts(last.calls) = 0

\* C2: a request whose claimed address is non-empty and differs from the
\* source address is answered abuse and issues no DNS upsert or delete.
\* Stated for the requests that get as far as the address checks: the record
\* exists and is enabled, the credential is the stored one, the candidate
\* address is well-formed.
C2_MismatchIsAbuse ==
    (/\ last.mismatch /\ last.authorized /\ last.hit = "enabled"
     /\ last.ip \in IPv4s \cup IPv6s /\ ~LimiterStopped) =>
        /\ Code(last.body) = ResponseAbuse
        /\ last.calls = <<>>

\* C3: a request for an existing enabled record with an incorrect credential
\* is answered badauth, leaves the bound address alone, issues no DNS call,
\* and hands a failure event for the hostname to the update log.
C3_BadAuthLogged ==
    (last.header /\ ~last.authorized /\ last.hit = "enabled" /\ ~LimiterStopped) =>
        /\ Code(last.body) = ResponseBadAuth
        /\ ~last.put
        /\ last.calls = <<>>
        /\ \E i \in 1..Len(last.logs) :
              /\ last.logs[i].PK = <<"LOG#", last.hostname>>
              /\ last.logs[i].Status # "good"

\* C4: every request has exactly one outcome code and at most one upsert; a
\* DNS upsert or delete is issued only for a request whose credential matched
\* the stored hash of the existing enabled record it read and whose candidate
\* address differs from the address that record is bound to; no DNS call is
\* issued twice.
C4_OneOutcomeOneUpsert ==
    last.op = "update" =>
        /\ Len(last.body) \in {1, 2}
        /\ Code(last.body) \in {ResponseGood, ResponseNoChg, ResponseNoHost,
                                ResponseBadAuth, ResponseAbuse, ResponseBadIP}
        /\ Upserts(last.calls) <= 1
        /\ Deletes(last.calls) <= 1
        /\ Len(last.calls) = Upserts(last.calls) + Deletes(last.calls)
        /\ last.calls # <<>> =>
              /\ last.authorized
              /\ last.hit = "enabled"
              /\ last.ip # last.bound
              /\ last.calls[Len(last.calls)].op = "UPSERT"
              /\ last.calls[Len(last.calls)].value = last.ip

C4_Witness ==
    /\ Len(last.calls) = 2
    /\ last.calls[2].ok
    /\ Code(last.body) = ResponseNoHost

\* C5: a request for a disabled record gets the reply the same request gets
\* when the hostname has no record at all, for any credential and any address.
C5_DisabledLikeAbsent ==
    last.hit = "disabled" => Wire(last) = last.ifAbsent

\* ------------------------------------------------------------------------
\* Properties of the rate limiter
\* ------------------------------------------------------------------------
\* C6: with N = 60 requests permitted per hostname and window, none of the
\* first N requests counted in a window is rejected by the limiter, and the
\* (N+1)-th is answered abuse without any credential comparison or DNS call.
C6_LimitAtSixty ==
    /\ last.nth \in 1..MaxRequestsPerWindow => ~last.limited
    /\ last.nth = MaxRequestsPerWindow + 1 =>
          /\ Code(last.body) = ResponseAbuse
          /\ ~last.compared
          /\ last.calls = <<>>

\* C7: Client.IncrementRateLimit counts in fixed windows: the first increment
\* after a window boundary starts afresh, so the request that makes it is
\* handed a count of 1 and is not rejected by the limiter, whatever the count
\* of the window before.
C7_FreshWindow ==
    (impl = "client" /\ last.t > 0 /\ last.nth = 1) =>
        /\ last.entry.Count = 1
        /\ ~last.limited

\* C8: when the limiter's store fails, the request is treated as not limited:
\* it goes on to the steps that follow the limiter, and the error never
\* becomes its outcome.
C8_LimiterFailsOpen ==
    last.limiterErr =>
        /\ ~last.limited
        /\ last.endedBy # "limiter"

\* ------------------------------------------------------------------------
\* Properties of the login lockout
\* ------------------------------------------------------------------------
\* an operation that decides whether an attempt is let through
Gate == seen.op \in {"Login", "IsLoginLocked"}

\* the attempt was let through and, where a session is asked for, got one
Admitted == seen.result \in {"session", "open"}

\* C9: after exactly 5 failed authentications in a row for a key, with no
\* success in between, the next attempt is refused as locked without its
\* credential being compared, even a correct one; once 15 minutes have passed
\* since the fifth failure, an attempt with the correct credential succeeds.
\* The attempts follow one another without overlapping.
C9_LockoutAfterFive ==
    (Gate /\ seen.serial /\ seen.fails = 5) =>
        IF seen.at < seen.failAt + 15
        THEN seen.result = "locked" /\ ~seen.compared
        ELSE seen.correct => Admitted

\* C10: when a failure sets the lockout, the stored failed-attempt counter is
\* reset to zero at that moment, so that a lockout is only ever set by the
\* fifth written failure since the last success or lockout: once a lockout
\* has expired, a single further failure does not lock again.
C10_CounterResetAtLockout ==
    seen.lockSet =>
        /\ Counter(attempts[seen.key]) = 0
        /\ Run(seen) >= 5

\* the unit's record of one more failed attempt and its lockout lookup, both
\* without any store failure
FailedOnce(item, key, t) ==
    IF unit = "AuthService" THEN recordLoginAttempt(item, key, t, FALSE, FALSE).item
    ELSE LET added == RecordLoginAttempt(item, t, FALSE) IN
         IF ThresholdReached(added) THEN SetLockedUntil(added, t) ELSE added

RECURSIVE FailedTimes(_, _, _, _)
FailedTimes(item, key, t, k) ==
    IF k = 0 THEN item ELSE FailedTimes(FailedOnce(item, key, t), key, t, k - 1)

LockedAt(item, t) ==
    IF unit = "AuthService" THEN isIPLocked(item, t, FALSE).locked
    ELSE IsLoginLocked(item, t, FALSE).locked

\* C11: right after a success whose attempt record was written, before any
\* other login operation begins, the key's failed-attempt count is zero and
\* its locked-until timestamp is cleared, whatever they were before: the key is
\* not locked, fewer than 5 further failures do not lock it and the fifth
\* does.
C11_SuccessResets ==
    (seen.event = "success" /\ seen.recorded /\ seen.serial
     /\ LoginsInFlight = {}) =>
        LET item == attempts[seen.key] IN
        /\ Counter(item) = 0
        /\ LockedUntilOf(item) = 0
        /\ ~LockedAt(item, now)
        /\ \A k \in 1..(maxFailedAttempts - 1) :
              ~LockedAt(FailedTimes(item, seen.key, now, k), now)
        /\ LockedAt(FailedTimes(item, seen.key, now, maxFailedAttempts), now)

\* a success recorded while the lockout set by five failures was running
C11_Witness ==
    /\ seen.op = "RecordLoginAttempt"
    /\ seen.event = "success" /\ seen.recorded
    /\ seen.serial /\ LoginsInFlight = {}
    /\ seen.streak = 5
    /\ seen.at < seen.streakAt + LoginLockoutMinutes
    /\ Counter(attempts[seen.key]) = 0

\* ------------------------------------------------------------------------
\* Properties of the update pipeline under failures
\* ------------------------------------------------------------------------
UpsertFailed(calls) ==
    \E i \in 1..Len(calls) : calls[i].op = "UPSERT" /\ ~calls[i].ok

UpsertDone(calls, ip) ==
    \E i \in 1..Len(calls) :
        calls[i].op = "UPSERT" /\ calls[i].ok /\ calls[i].value = ip

\* C12: a request whose DNS upsert fails is answered with nohost or the
\* server error, never good, and makes no record write; the bound address of
\* a record only ever changes in the record write of a request for its
\* hostname, to the address that request upserted with success, and an upsert
\* that succeeded left the address in the zone.
C12_UpsertFailureSafe ==
    [][/\ UpsertFailed(last'.calls) =>
             /\ Code(last'.body) \in {ResponseNoHost, ResponseBadIP}
             /\ ~last'.put
       /\ \A h \in Hosts :
             BoundIP(ddns', h) # BoundIP(ddns, h) =>
                 \E p \in Procs :
                     /\ procs[p].op = "update" /\ procs[p].pc = "put"
                     /\ procs'[p] # procs[p]
                     /\ procs[p].hostname = h
                     /\ UpsertDone(procs[p].calls, BoundIP(ddns', h))
       /\ \A p \in Procs :
             (/\ procs[p].op = "update" /\ procs[p].pc = "upsert"
              /\ (procs'[p] = IdleProc \/ procs'[p].pc # "upsert")) =>
                 LET after == IF procs'[p] = IdleProc THEN last' ELSE procs'[p]
                     call == after.calls[Len(after.calls)]
                 IN call.ok => zone'[call.name][call.type].value = call.value]_vars

\* the old-type record was deleted, then the upsert failed
C12_Witness ==
    /\ Len(last.calls) = 2
    /\ last.calls[1].ok
    /\ ~last.calls[2].ok
    /\ Code(last.body) = ResponseNoHost
    /\ ~last.put

\* C13: when the DNS upsert succeeded and the record write that follows it
\* fails, the request is still answered good with the address.
C13_StoreFailStillGood ==
    (UpsertDone(last.calls, last.ip) /\ last.put /\ ~last.stored) =>
        last.body = BodyIP(ResponseGood, last.ip)

\* C14: a failure of CreateUpdateLog never changes the request: status, body,
\* DNS calls, record write and record written are those of the same request
\* whose append succeeds; the append is made at most once and is not retried,
\* so the failed one leaves no event in the store.
C14_LogFailureHarmless ==
    /\ Len(last.logs) <= 1
    /\ last.logErr =>
          /\ Effect(last) = last.ifLogged
          /\ ~last.logged

\* an update answered good whose event could not be appended
C14_Witness ==
    /\ last.logErr
    /\ Code(last.body) = ResponseGood
    /\ UpsertDone(last.calls, last.ip)
    /\ last.stored
    /\ \A k \in LogKeys : updateLog[k] = 0

\* ------------------------------------------------------------------------
\* Properties of the candidate address
\* ------------------------------------------------------------------------
\* the request read the record, was let through by the limiter, and none of
\* its DNS calls or its record write failed
Unhindered ==
    /\ last.hit = "enabled"
    /\ ~LimiterStopped
    /\ \A i \in 1..Len(last.calls) : last.calls[i].ok
    /\ last.put => last.stored

\* C15: when myip is omitted the candidate address is the source address: for
\* an enabled record with TTL 60 and an empty bound address, a request with
\* the stored credential and a well-formed source address is answered good
\* with the source address, writes the record bound to it, and issues exactly
\* one upsert, of the type of that address, with that value and the record's
\* TTL.
C15_SourceIsCandidate ==
    (/\ last.myip = "" /\ last.authorized /\ last.bound = ""
     /\ last.ip \in IPv4s \cup IPv6s /\ Unhindered) =>
        /\ last.body = BodyIP(ResponseGood, last.ip)
        /\ last.stored /\ last.written.CurrentIP = last.ip
        /\ last.calls =
              <<Call("UPSERT", last.hostname,
                     IF last.ip \in IPv4s THEN "A" ELSE "AAAA", last.ip,
                     last.record.TTL, TRUE)>>
        /\ last.record.TTL = 60

C15_Witness ==
    /\ last.myip = "" /\ last.ip = "203.0.113.5" /\ last.bound = ""
    /\ last.body = BodyIP(ResponseGood, "203.0.113.5")
    /\ last.calls = <<Call("UPSERT", last.hostname, "A", "203.0.113.5", 60, TRUE)>>
    /\ last.stored /\ last.written.CurrentIP = "203.0.113.5"

\* the address families of the bound address and of the candidate differ
FamilyChanged ==
    /\ last.bound \in IPv4s \cup IPv6s
    /\ last.ip \in IPv4s \cup IPv6s
    /\ (last.bound \in IPv4s) # (last.ip \in IPv4s)

\* C16: when an authenticated update carries an address of the other family
\* than the bound one, a delete of the old-type DNS record is attempted
\* first, then the upsert of the new-type record whether or not the delete
\* succeeded, and the request is answered good with the new address.  The
\* requests whose upsert or record write fails are left aside for the answer.
C16_DeleteBeforeUpsert ==
    (/\ FamilyChanged /\ last.authorized /\ ~last.mismatch
     /\ last.hit = "enabled" /\ ~LimiterStopped) =>
        /\ Len(last.calls) = 2
        /\ last.calls[1].op = "DELETE"
        /\ last.calls[1].type = (IF last.bound \in IPv4s THEN "A" ELSE "AAAA")
        /\ last.calls[2].op = "UPSERT"
        /\ last.calls[2].type = (IF last.ip \in IPv4s THEN "A" ELSE "AAAA")
        /\ (last.calls[2].ok /\ (last.put => last.stored)) =>
              last.body = BodyIP(ResponseGood, last.ip)

\* C17: a candidate address that is no IPv4 or IPv6 literal gets the
\* validation-failure answer, the server error, and not nohost, abuse or
\* badauth; no DNS call and no record write is made.  Stated for the requests
\* that carry the stored credential of an enabled record.
C17_InvalidAddress ==
    (/\ last.ip \notin IPv4s \cup IPv6s /\ last.authorized
     /\ last.hit = "enabled" /\ ~LimiterStopped) =>
        /\ Code(last.body) = ResponseBadIP
        /\ last.calls = <<>>
        /\ ~last.put

\* C18: the status of a reply follows from its outcome code alone: 401 for
\* badauth, 429 for abuse, 200 for good, nochg, nohost and the server error,
\* whichever step produced the outcome.
C18_StatusOfOutcome ==
    last.op = "update" =>
        last.status =
            IF Code(last.body) = ResponseBadAuth THEN StatusUnauthorized
            ELSE IF Code(last.body) = ResponseAbuse THEN StatusTooManyRequests
            ELSE StatusOK

\* ------------------------------------------------------------------------
\* Properties of record administration
\* ------------------------------------------------------------------------
\* the credentials an update request for the hostname authenticates with
Accepted(h) ==
    {token \in AllTokens :
        /\ IsRecord(GetDDNSRecord(ddns, h))
        /\ CompareHashAndPassword(GetDDNSRecord(ddns, h).UpdateTokenHash, token)}

\* C19: once RegenerateToken has returned a new credential for a hostname,
\* every update request that reads the record from then on authenticates with
\* the credential returned last and with no other, whatever update requests
\* were in flight for the hostname meanwhile.
C19_OldTokenInvalid ==
    \A h \in Hosts :
        (issued[h] # <<>> /\ IsRecord(GetDDNSRecord(ddns, h))) =>
            Accepted(h) = {issued[h][Len(issued[h])]}

\* C20: DeleteDDNSRecord removes the record from the store whether or not the
\* removal of the DNS record succeeded, also when the zone holds no DNS record
\* for the hostname.  Left aside: the record does not exist, or the store
\* itself fails.
C20_DeleteBestEffort ==
    (adm.op = "DeleteDDNSRecord" /\ adm.existed /\ ~adm.storeErr) =>
        ~IsRecord(GetDDNSRecord(ddns, adm.hostname))

\* ------------------------------------------------------------------------
\* Record creation
\* ------------------------------------------------------------------------
\* the CreateDDNSRecord calls for h that have returned
Creates(h) ==
    {p \in Procs : /\ procs[p].op = "CreateDDNSRecord"
                   /\ procs[p].stage = "done"
                   /\ procs[p].hostname = h}

Won(h) == {p \in Creates(h) : procs[p].err = ""}

\* C21: hostnames are unique in the store: of the CreateDDNSRecord calls for
\* one hostname, concurrent ones included, at most one succeeds, every other
\* one that met no store failure fails with already-exists, and the stored
\* credential hash is the hash of the token returned to the one that succeeded
C21_HostnameUnique ==
    \A h \in Hosts :
        /\ Cardinality(Won(h)) <= 1
        /\ \A p \in Creates(h) \ Won(h) :
              ~procs[p].fault => procs[p].err = "exists"
        /\ \A p \in Won(h) :
              /\ IsRecord(ddns[h])
              /\ ddns[h].UpdateTokenHash = Hash(procs[p].token)

\* C29: every record in the store has a TTL of at least 60 seconds, whatever
\* creations and updates the administrator made
C29_TTLAtLeastSixty ==
    \A h \in Hosts : IsRecord(ddns[h]) => ddns[h].TTL >= 60

\* ------------------------------------------------------------------------
\* Idempotence
\* ------------------------------------------------------------------------
\* C22 as stated: a request that repeats one answered nochg, the record
\* unchanged in between, is answered nochg again, however many times it is
\* repeated
C22_ReplayNoChg ==
    last.afterNoChg => Code(last.body) = ResponseNoChg

\* C22 amended: the replay issues no DNS call and no record write; it is
\* stopped by the limiter exactly when it is counted past the sixtieth request
\* of the window and is then answered abuse; it is answered 911 when the
\* package-level limiter call fails, nohost when the store read fails, and
\* nochg in every other case
C22_ReplayNoChgUnlessStopped ==
    last.afterNoChg =>
        /\ last.calls = <<>>
        /\ ~last.put
        /\ last.limited <=> last.nth > MaxRequestsPerWindow
        /\ Code(last.body) =
              IF last.limited THEN ResponseAbuse
              ELSE IF impl = "pkg" /\ last.limiterErr THEN ResponseBadIP
              ELSE IF last.hit = "error" THEN ResponseNoHost
              ELSE ResponseNoChg

\* a replay answered nochg as the sixtieth request of its window
C22_Witness ==
    /\ last.afterNoChg
    /\ Code(last.body) = ResponseNoChg
    /\ last.nth = MaxRequestsPerWindow

\* ------------------------------------------------------------------------
\* Updates racing administrative operations
\* ------------------------------------------------------------------------
\* C24: the write that ends an update request leaves the credential hash, the
\* enabled flag, the TTL and the zone of the record as the store held them at
\* the moment of the write
C24_OnlyAddressAndTime ==
    [][(\E p \in Procs : /\ procs[p].op = "update" /\ procs[p].pc = "put"
                         /\ procs'[p] # procs[p]) =>
          \A h \in Hosts :
              IsRecord(ddns[h]) /\ IsRecord(ddns'[h]) =>
                  /\ ddns'[h].UpdateTokenHash = ddns[h].UpdateTokenHash
                  /\ ddns'[h].Enabled = ddns[h].Enabled
                  /\ ddns'[h].TTL = ddns[h].TTL
                  /\ ddns'[h].ZoneID = ddns[h].ZoneID]_vars

\* C25: after UpdateDDNSRecord(hostname, enabled = false) returned without
\* error, and while no other administrative operation has been made, the
\* record is disabled
C25_StaysDisabled ==
    (adm.op = "UpdateDDNSRecord" /\ ~adm.err /\ ~adm.enabled) =>
        (IsRecord(ddns[adm.hostname]) => ~ddns[adm.hostname].Enabled)

\* no request is in flight
Quiet == InFlight = {}

\* C23: once the concurrent update requests have completed, none of their
\* calls having failed, the zone holds for the hostname the address the record
\* is bound to and no other, so that a request with the stored address is
\* answered nochg only when DNS holds it
C23_StoreMatchesDNS ==
    (Quiet /\ nfault = 0) => \A h \in Hosts : IsRecord(ddns[h]) => zone[h] = ZoneOf(ddns[h])

\* ------------------------------------------------------------------------
\* The update log
\* ------------------------------------------------------------------------
\* C26: every request that reaches the pipeline, whatever its outcome, hands
\* exactly one event to the log, with the hostname, the previous address, the
\* source address and the client descriptor of the request, and the event is
\* stored unless the log write fails
C26_EveryAttemptLogged ==
    last.ran =>
        /\ Len(last.logs) = 1
        /\ last.logs[1].PK = <<"LOG#", last.hostname>>
        /\ last.logs[1].PreviousIP = last.bound
        /\ last.logs[1].UserAgent \in UserAgents
        /\ last.logs[1].SourceIP \in SourceIPs
        /\ last.logErr \/ last.logged

\* the item is the stored form of the event
Holds(item, event) ==
    /\ item.PreviousIP = event.PreviousIP
    /\ item.NewIP = event.NewIP
    /\ item.SourceIP = event.SourceIP
    /\ item.UserAgent = event.UserAgent
    /\ item.Status = event.Status

\* GetUpdateLogs of the implementation that serves
StoredHistory(table, hostname, limit) ==
    IF impl = "client" THEN GetUpdateLogs(table, hostname, limit)
    ELSE GetUpdateLogs2(table, hostname, limit)

\* the history lists later events before earlier ones
MostRecentFirst(r) ==
    \A i, j \in 1..Len(r) :
        i < j => ParseRFC3339Nano(r[i].SK) >= ParseRFC3339Nano(r[j].SK)

\* C27: after an update for hostname h has been logged, GetUpdateLogs(h,
\* limit) returns at most limit events, most recent first, the event just
\* logged at their head, and the history of every other hostname is as it was
C27_HistoryByHostname ==
    [][(nreq' = nreq + 1 /\ last'.logged) =>
          \A limit \in Limits :
              LET r == StoredHistory(logTable', last'.hostname, limit) IN
              /\ Len(r) >= 1
              /\ Len(r) <= limit
              /\ Holds(r[1], last'.logs[1])
              /\ MostRecentFirst(r)
              /\ \A h \in LogHosts \ {last'.hostname} :
                    StoredHistory(logTable', h, limit) = StoredHistory(logTable, h, limit)]_vars

\* ------------------------------------------------------------------------
\* Atomic rate counting
\* ------------------------------------------------------------------------
\* the IncrementRateLimit calls for the key whose UpdateItem was made
Added(key) ==
    {p \in Procs : /\ procs[p].op = "IncrementRateLimit"
                   /\ procs[p].key = key
                   /\ procs[p].stage \in {"added", "done"}
                   /\ ~procs[p].err}

\* C30: the key has one counter item; the stored count is the number of
\* IncrementRateLimit calls that made their UpdateItem, whatever their
\* interleaving and the windows they started in; no two of them are handed the
\* same count; none of them resets the counter; and a call that returned
\* returns the count it was handed
C30_AtomicCount ==
    \A key \in Hosts :
        /\ Added(key) = {} => limits[key] = NoItem
        /\ Added(key) # {} => limits[key].Count = Cardinality(Added(key))
        /\ \A p, q \in Added(key) :
              p # q => procs[p].entry.Count # procs[q].entry.Count
        /\ \A p \in Added(key) :
              /\ procs[p].resets = 0
              /\ procs[p].stage = "done" => procs[p].count = procs[p].entry.Count

\* every caller has returned, two of them for one key and in different
\* windows
C30_Witness ==
    /\ \A p \in Procs : procs[p].stage = "done" /\ ~procs[p].err
    /\ \E p, q \in Procs :
          /\ procs[p].key = procs[q].key
          /\ procs[p].t # procs[q].t
          /\ procs[p].count + 1 = procs[q].count

\* ------------------------------------------------------------------------
\* Existence of a record
\* ------------------------------------------------------------------------
\* C31: the pipeline never creates a record: once DeleteDDNSRecord(hostname)
\* has completed, GetDDNSRecord(hostname) reports not-found (no create is made
\* afterwards), also when an update request read the record before the delete
\* and writes after it.
C31_DeletedStaysGone ==
    (adm.op = "DeleteDDNSRecord" /\ ~adm.err) =>
        ~IsRecord(GetDDNSRecord(ddns, adm.hostname))

\* C32: failed-login counting loses no increment: once N failed attempts for
\* a key have been recorded and none is in flight, the stored failed-attempt
\* count is N, and from 5 failures on the key is locked out.
C32_NoLostIncrement ==
    (\A p \in Procs : procs[p] = IdleProc) =>
        \A key \in ClientIPs :
            /\ Counter(attempts[key]) = nreq
            /\ nreq >= MaxLoginAttempts => LockedUntilOf(attempts[key]) > now

\* C33: the update log is append-only: an event once written is never replaced
\* by a later CreateUpdateLog, so the number of items stored under a key is
\* the number of events written under it, also when two events carry the
\* same timestamp.
C33_AppendOnly ==
    \A k \in LogKeys : Cardinality({i \in logTable : i.PK = k}) = updateLog[k]

\* ------------------------------------------------------------------------
\* The zone-list cache
\* ------------------------------------------------------------------------
\* a call of ListZones or ListHostedZones returns in this step: from the
\* cache at once, or after its fetch
ListReturns ==
    \/ nreq' # nreq /\ procs' = procs /\ r53'.op = "list"
    \/ \E p \in Procs : procs[p].op = "list" /\ procs'[p] = IdleProc

\* C34: a listing returned from the cache is one the provider answered with
\* less than 5 minutes earlier; once the 5 minutes have elapsed, or after an
\* invalidation, the next call fetches from the provider; and a call whose
\* fetch fails leaves the cache as it is: it stores nothing and has removed
\* no entry that was valid.  Two clauses are read in favour of the code: the
\* invalidations are those made while no call is in flight, and the removal
\* of an entry that had expired is no change of the cache.
C34_NeverStale ==
    [][ListReturns =>
          /\ r53'.from = "cache" =>
                /\ ~r53'.first
                /\ \E s \in r53.stored :
                      s.zones = r53'.zones /\ now - s.at < cacheTTL
          /\ r53'.from = "error" =>
                /\ ~r53'.dropped
                /\ r53'.zoneCache = r53.zoneCache /\ r53'.entry = r53.entry]_vars

\* ------------------------------------------------------------------------
\* CSRF protection
\* ------------------------------------------------------------------------
\* C35: a POST, PUT or DELETE request to a route other than /nic/update,
\* POST /login and POST /logout included, is answered 403 and its handler
\* does not run unless a token it submits is the token of its csrf_token
\* cookie; a GET, HEAD or OPTIONS request and a request to /nic/update are
\* never ended by the CSRF check.
C35_CSRFOnAllForms ==
    web.op = "request" =>
        /\ ( /\ web.method \in {"POST", "PUT", "DELETE"}
             /\ IsRoute(Stack, web.method, web.path)
             /\ web.path # "/nic/update"
             /\ web.cookie \notin web.submitted )
           => (web.status = 403 /\ ~web.ran)
        /\ ( \/ web.method \in {"GET", "HEAD", "OPTIONS"}
             \/ web.path = "/nic/update" )
           => web.by # "csrf"

\* ------------------------------------------------------------------------
\* Sessions
\* ------------------------------------------------------------------------
\* C28: the handler of a protected route runs only for a cookie naming a
\* session a successful login created, no logout was made with, and not older
\* than 24 hours; every other request to a protected route is redirected to
\* /login
C28_ProtectedNeedsSession ==
    web.op = "protected" =>
        /\ web.ran =>
              /\ web.cookie \in web.created
              /\ web.cookie \notin web.ended
              /\ web.at - web.createdAt[web.cookie] <= SessionTTLHours * 60
        /\ ~web.ran => web.redirect = "/login"

TypeOK ==
    /\ impl \in Impls
    /\ now \in (0..MaxTime) \cup (0..MaxClock) \cup (0..MaxMinutes)
               \cup (0..(MaxHalfDays * SessionTTLHours * 60))
    /\ nfault \in 0..MaxFaults
    /\ nreq \in (0..MaxReq) \cup (0..MaxCount)
    /\ unit \in Units
    /\ \A p \in Procs : "op" \in DOMAIN procs[p]

====
